---- MODULE Spec2Model ----
(***************************************************************************)
(* Ralph Agent: the external-agent process supervisor (ClineRunner), its   *)
(* isolated state directory, the git helpers create_branch and             *)
(* commit_and_push, parse_issue, the orchestration scripts ralph_agent     *)
(* and self_review with parse_verdict, and take_screenshot.                *)
(*                                                                         *)
(* Text is modelled as a sequence of one-character strings, so that the    *)
(* string operations of the code (strip, lower, substring test, join,      *)
(* str(int), json.dumps) are computed, not assumed.                        *)
(***************************************************************************)
EXTENDS Integers, Sequences, FiniteSets, TLC

(***************************************************************************)
(* Text helpers                                                            *)
(***************************************************************************)

\* Python's None: a text value no real text equals (real texts hold one-character strings).
None == <<"None">>

\* Python truthiness of an Optional[str]: None and "" are falsy.
Truthy(x) == x # None /\ x # <<>>

\* The characters str.strip() removes.
Whitespace == {" ", "\t", "\n", "\r", "\f"}

RECURSIVE LStrip(_)
LStrip(s) == IF s # <<>> /\ Head(s) \in Whitespace THEN LStrip(Tail(s)) ELSE s

RECURSIVE RStrip(_)
RStrip(s) ==
    IF s # <<>> /\ s[Len(s)] \in Whitespace THEN RStrip(SubSeq(s, 1, Len(s) - 1)) ELSE s

\* str.strip()
Strip(s) == RStrip(LStrip(s))

\* a line kept as it was read, with its line end
KeepNewline(s) == s

\* raw.rstrip("\n")
RECURSIVE RStripNewline(_)
RStripNewline(s) ==
    IF s # <<>> /\ s[Len(s)] = "\n" THEN RStripNewline(SubSeq(s, 1, Len(s) - 1)) ELSE s

UpperCase == <<"A", "B", "C", "D", "E", "F", "G", "H", "I", "J", "K", "L", "M",
    "N", "O", "P", "Q", "R", "S", "T", "U", "V", "W", "X", "Y", "Z">>
LowerCase == <<"a", "b", "c", "d", "e", "f", "g", "h", "i", "j", "k", "l", "m",
    "n", "o", "p", "q", "r", "s", "t", "u", "v", "w", "x", "y", "z">>

LowerChar(c) ==
    IF \E i \in 1..26 : UpperCase[i] = c
    THEN LowerCase[CHOOSE i \in 1..26 : UpperCase[i] = c]
    ELSE c

\* str.lower()
Lower(s) == [i \in 1..Len(s) |-> LowerChar(s[i])]

\* Python's `sub in s` on strings.
Contains(sub, s) ==
    \E i \in 0..(Len(s) - Len(sub)) : SubSeq(s, i + 1, i + Len(sub)) = sub

\* sep.join(parts)
RECURSIVE Join(_, _)
Join(sep, parts) ==
    IF parts = <<>> THEN <<>>
    ELSE IF Len(parts) = 1 THEN parts[1]
    ELSE parts[1] \o sep \o Join(sep, Tail(parts))

Digits == <<"0", "1", "2", "3", "4", "5", "6", "7", "8", "9">>

\* str(n) of an int
RECURSIVE NatToStr(_)
NatToStr(n) == IF n < 10 THEN <<Digits[n + 1]>> ELSE NatToStr(n \div 10) \o <<Digits[(n % 10) + 1]>>
IntToStr(n) == IF n < 0 THEN <<"-">> \o NatToStr(0 - n) ELSE NatToStr(n)

(***************************************************************************)
(* Module constants of cline_runner.py                                     *)
(***************************************************************************)

\* _STUCK_PATTERNS, in list order
STUCK_PATTERNS ==
    <<<<"D", "o", " ", "y", "o", "u", " ", "w", "a", "n", "t", " ", "t", "o", " ", "p", "r",
        "o", "c", "e", "e", "d">>,
      <<"P", "r", "e", "s", "s", " ", "E", "n", "t", "e", "r">>,
      <<"(", "Y", "/", "n", ")">>,
      <<"(", "y", "/", "N", ")">>,
      <<"A", "p", "p", "r", "o", "v", "e", "?">>,
      <<"w", "a", "i", "t", "i", "n", "g", " ", "f", "o", "r", " ", "a", "p", "p", "r", "o",
        "v", "a", "l">>,
      <<"P", "l", "e", "a", "s", "e", " ", "r", "u", "n", " ", "'", "c", "l", "i", "n", "e",
        " ", "a", "u", "t", "h", "'">>>>

T_cline == <<"c", "l", "i", "n", "e">>
T_y == <<"-", "y">>
T_timeout == <<"-", "-", "t", "i", "m", "e", "o", "u", "t">>
T_p == <<"-", "p">>
T_c == <<"-", "c">>
MsgEmptyPrompt == <<"C", "l", "i", "n", "e", " ", "p", "r", "o", "m", "p", "t", " ", "c", "a",
    "n", "n", "o", "t", " ", "b", "e", " ", "e", "m", "p", "t", "y", ".">>
MsgStuckPrefix == <<"C", "l", "i", "n", "e", " ", "a", "p", "p", "e", "a", "r", "s", " ", "s",
    "t", "u", "c", "k", ":", " ">>
MsgDetected == <<"D", "e", "t", "e", "c", "t", "e", "d", " ", "s", "t", "u", "c", "k", " ",
    "p", "a", "t", "t", "e", "r", "n", ":", " ", "'">>
MsgIn == <<"'", " ", "i", "n", ":", " ">>
MsgTimedOut == <<"C", "l", "i", "n", "e", " ", "t", "i", "m", "e", "d", " ", "o", "u", "t",
    " ", "a", "f", "t", "e", "r", " ">>
MsgSeconds == <<" ", "s", "e", "c", "o", "n", "d", "s">>
MsgExited == <<"C", "l", "i", "n", "e", " ", "e", "x", "i", "t", "e", "d", " ", "w", "i", "t",
    "h", " ", "c", "o", "d", "e", " ">>
MsgNotFound == <<"C", "l", "i", "n", "e", " ", "C", "L", "I", " ", "b", "i", "n", "a", "r",
    "y", " ", "n", "o", "t", " ", "f", "o", "u", "n", "d", ".", " ", "I", "s", " ", "i", "t",
    " ", "i", "n", "s", "t", "a", "l", "l", "e", "d", " ", "g", "l", "o", "b", "a", "l", "l",
    "y", "?">>
DefaultAllow == <<
    <<"n", "p", "m", " ", "*">>,
    <<"n", "p", "x", " ", "*">>,
    <<"n", "o", "d", "e", " ", "*">>,
    <<"g", "i", "t", " ", "*">>,
    <<"c", "a", "t", " ", "*">>,
    <<"l", "s", " ", "*">>,
    <<"m", "k", "d", "i", "r", " ", "*">>,
    <<"c", "d", " ", "*">>,
    <<"e", "c", "h", "o", " ", "*">>,
    <<"c", "p", " ", "*">>,
    <<"m", "v", " ", "*">>,
    <<"p", "y", "t", "h", "o", "n", " ", "*">>,
    <<"p", "i", "p", " ", "*">>,
    <<"p", "y", "t", "e", "s", "t", " ", "*">>>>
DefaultDeny == <<
    <<"r", "m", " ", "-", "r", "f", " ", "/">>,
    <<"r", "m", " ", "-", "r", "f", " ", "/", "*">>,
    <<"s", "h", "u", "t", "d", "o", "w", "n", " ", "*">>,
    <<"r", "e", "b", "o", "o", "t", " ", "*">>,
    <<"c", "u", "r", "l", " ", "*", "|", "*", "s", "h">>,
    <<"w", "g", "e", "t", " ", "*", "|", "*", "s", "h">>>>
ReadOnlyAllow == <<
    <<"g", "i", "t", " ", "d", "i", "f", "f", " ", "*">>,
    <<"g", "i", "t", " ", "l", "o", "g", " ", "*">>,
    <<"g", "i", "t", " ", "s", "h", "o", "w", " ", "*">>,
    <<"g", "i", "t", " ", "s", "t", "a", "t", "u", "s">>,
    <<"c", "a", "t", " ", "*">>,
    <<"l", "s", " ", "*">>,
    <<"n", "p", "m", " ", "t", "e", "s", "t">>,
    <<"n", "p", "x", " ", "j", "e", "s", "t", " ", "*">>,
    <<"n", "p", "x", " ", "p", "l", "a", "y", "w", "r", "i", "g", "h", "t", " ", "*">>,
    <<"n", "o", "d", "e", " ", "*">>,
    <<"h", "e", "a", "d", " ", "*">>,
    <<"t", "a", "i", "l", " ", "*">>,
    <<"w", "c", " ", "*">>>>
ReadOnlyDeny == <<
    <<"r", "m", " ", "*">>,
    <<"m", "v", " ", "*">>,
    <<"c", "p", " ", "*">>,
    <<"g", "i", "t", " ", "p", "u", "s", "h", " ", "*">>,
    <<"g", "i", "t", " ", "c", "o", "m", "m", "i", "t", " ", "*">>,
    <<"g", "i", "t", " ", "a", "d", "d", " ", "*">>,
    <<"g", "i", "t", " ", "c", "h", "e", "c", "k", "o", "u", "t", " ", "*">>,
    <<"g", "i", "t", " ", "r", "e", "s", "e", "t", " ", "*">>,
    <<"n", "p", "m", " ", "i", "n", "s", "t", "a", "l", "l", " ", "*">>,
    <<"p", "i", "p", " ", "i", "n", "s", "t", "a", "l", "l", " ", "*">>>>

\* pathlib.Path(p) as str(): repeated slashes collapse and a trailing slash is dropped
\* (the forms the callers' directory names can take; "." and ".." components are not modelled).
RECURSIVE CollapseSlashes(_)
CollapseSlashes(s) ==
    IF Len(s) < 2 THEN s
    ELSE IF s[1] = "/" /\ s[2] = "/" THEN CollapseSlashes(Tail(s))
    ELSE <<s[1]>> \o CollapseSlashes(Tail(s))

PathOf(p) ==
    LET c == CollapseSlashes(p)
    IN  IF c = <<>> THEN <<".">>
        ELSE IF Len(c) > 1 /\ c[Len(c)] = "/" THEN SubSeq(c, 1, Len(c) - 1)
        ELSE c

(***************************************************************************)
(* Command permission policies and json.dumps of a policy                  *)
(***************************************************************************)

\* A policy dict: the keys it holds, in insertion order, and their values.
PolicyKeys == <<"allow", "deny", "allowRedirects">>

DEFAULT_COMMAND_PERMISSIONS ==
    [none |-> FALSE, keys |-> PolicyKeys, allow |-> DefaultAllow, deny |-> DefaultDeny,
     allowRedirects |-> TRUE]

READ_ONLY_PERMISSIONS ==
    [none |-> FALSE, keys |-> PolicyKeys, allow |-> ReadOnlyAllow, deny |-> ReadOnlyDeny,
     allowRedirects |-> FALSE]

\* command_permissions=None, and the empty dict {}
NonePermissions ==
    [none |-> TRUE, keys |-> <<>>, allow |-> <<>>, deny |-> <<>>, allowRedirects |-> FALSE]
EmptyPermissions ==
    [none |-> FALSE, keys |-> <<>>, allow |-> <<>>, deny |-> <<>>, allowRedirects |-> FALSE]

\* Python truthiness of an Optional[dict]
PermsTruthy(p) == ~p.none /\ p.keys # <<>>

JsonEscapeChar(c) ==
    IF c = "\"" THEN <<"\\", "\"">> ELSE IF c = "\\" THEN <<"\\", "\\">> ELSE <<c>>

RECURSIVE JsonEscape(_)
JsonEscape(s) == IF s = <<>> THEN <<>> ELSE JsonEscapeChar(Head(s)) \o JsonEscape(Tail(s))

JsonString(s) == <<"\"">> \o JsonEscape(s) \o <<"\"">>

JsonArray(xs) ==
    <<"[">> \o Join(<<",", " ">>, [i \in 1..Len(xs) |-> JsonString(xs[i])]) \o <<"]">>

JsonBool(b) == IF b THEN <<"t", "r", "u", "e">> ELSE <<"f", "a", "l", "s", "e">>

JsonKey(k) ==
    IF k = "allow" THEN JsonString(<<"a", "l", "l", "o", "w">>)
    ELSE IF k = "deny" THEN JsonString(<<"d", "e", "n", "y">>)
    ELSE JsonString(<<"a", "l", "l", "o", "w", "R", "e", "d", "i", "r", "e", "c", "t", "s">>)

JsonValue(p, k) ==
    IF k = "allow" THEN JsonArray(p.allow)
    ELSE IF k = "deny" THEN JsonArray(p.deny)
    ELSE JsonBool(p.allowRedirects)

\* json.dumps(policy): default separators ", " and ": ", keys in insertion order
JsonDumps(p) ==
    <<"{">>
    \o Join(<<",", " ">>,
            [i \in 1..Len(p.keys) |-> JsonKey(p.keys[i]) \o <<":", " ">> \o JsonValue(p, p.keys[i])])
    \o <<"}">>

(***************************************************************************)
(* State                                                                   *)
(***************************************************************************)

VARIABLES
    \* the environment of the calling process
    environ,          \* os.environ: variable name -> text, or None when unset
    cline_on_path,    \* whether shutil.which("cline") resolves
    mcp_source,       \* content of the file at mcp_settings_path, or None when absent
    fs,               \* the isolated state directory on disk
    \* ClineRunner.__init__
    cpc,              \* position of the constructor
    self,             \* the object under construction
    ctor_outcome,     \* "none" | "pending" | "ok" | "FileNotFoundError"
    runner,           \* the latest constructed ClineRunner
    prev_model,       \* the model of the ClineRunner constructed before it, or None
    \* ClineRunner.run
    prompt, timeout, cwd,
    pc,               \* position of the calling thread in run
    cmd, env,
    popen_calls,      \* the arguments of every subprocess.Popen call
    proc,             \* the external process
    pipe,             \* per stream: raw lines written and not yet read
    wrote,            \* per stream: the lines the process has written
    rpc,              \* per stream: position of its reader thread
    lines,            \* per stream: stdout_lines / stderr_lines
    stuck_reason, lock, reason,
    clock,            \* time.monotonic(), in seconds
    now,              \* the clock as the loop last read it (-1: not read yet)
    deadline, check_count,
    last_usage, run_baseline,
    probe_calls,      \* number of get_openrouter_usage calls
    outcome,          \* what run returned or raised
    poll_seconds,     \* how long one `_time.sleep(1)` and the rest of an iteration take
    quota,            \* per stream: how many lines the process writes at most
    \* create_branch, one per concurrent workflow run
    remote,           \* branch names on origin
    bpc, name, unique_name, version,
    local,            \* per run: branches of its clone
    checked,          \* per run: each ls-remote call, its name and whether it printed
    branch_result     \* per run: what create_branch returned or raised

envVars == <<environ, cline_on_path, mcp_source>>
ctorVars == <<fs, cpc, self, ctor_outcome, runner, prev_model>>
runArgs == <<prompt, timeout, cwd, poll_seconds, quota>>
runVars == <<pc, cmd, env, popen_calls, proc, pipe, wrote, rpc, lines, stuck_reason,
    lock, reason, clock, now, deadline, check_count, last_usage, run_baseline,
    probe_calls, outcome>>
branchVars == <<remote, bpc, name, unique_name, version, local, checked, branch_result>>
cliVars == <<envVars, ctorVars, runArgs, runVars, branchVars>>

VARIABLES
    \* git_ops.commit_and_push
    kpc,              \* position in commit_and_push
    commit_message,
    branch,
    tree,             \* changed paths of the working tree that are not staged
    index,            \* staged paths
    secret_files,
    git_log,          \* every git command run: its name, paths, whether it succeeded, its output
    push_result,      \* what commit_and_push returned or raised
    \* issue_parser.parse_issue
    issue_args,       \* number, title, body and labels as passed
    issue,            \* what parse_issue returned or raised
    \* ralph_agent.main
    apc,              \* position in main
    api_key,          \* OPENROUTER_API_KEY as main finds it
    comments,         \* statuses of the comments posted on the issue
    server,           \* the backend server: "none" | "running" | "stopped"
    server_starts,    \* number of start_server calls
    shots,            \* the screenshots attempted
    attempt,
    tests_passed,
    failed_at,        \* the call whose exception left main
    exit_code,        \* exit code of the process
    agent_branch,     \* main's variable `branch`
    created,          \* the branch create_branch created and checked out
    agent_log,        \* the agent runs, test runs, pushes, pull requests and output lines, in order
    \* self_review.parse_verdict and self_review.main
    variant,          \* which self_review.py runs: "ralph" (src/ralph) | "scripts" (src/.github/scripts)
    review_output,    \* the reviewer's stdout
    verdict,          \* what parse_verdict returned ("": not called)
    vpc,              \* position in main
    iteration,
    visual_file,      \* content of screenshots/visual_verdict.txt, or None when absent
    verdict_reads,    \* number of read_visual_verdict calls
    prompts,          \* per reviewer run: whether its prompt starts with the visual findings
    pr_comments,      \* the review summaries posted on the PR
    review_exit,      \* exit code of the process
    pr_labels,        \* the labels main tried to put on the PR
    review_log,       \* the reviewer runs, fix rounds and pushes, in order
    \* screenshot.take_screenshot
    spc,              \* position in take_screenshot
    shot_dir,         \* the screenshots directory: file name -> entry
    dir_at_return,    \* the directory as it was when the agent returned
    shot_result,      \* what take_screenshot returned (<<>>: nothing yet)
    \* self_review.self_heal_loop
    hpc,              \* position in self_heal_loop
    max_attempts,
    heal_attempt,
    heal_log,         \* the test runs and fixer runs, in order
    heal_result,      \* what self_heal_loop returned ("none": nothing yet)
    \* prompt_utils.load_prompt_template
    tpc,              \* position in load_prompt_template
    template,         \* content of the template file
    kwargs,           \* the keyword arguments, in the order of the call
    rendered          \* what load_prompt_template returned

pushVars == <<kpc, commit_message, branch, tree, index, secret_files, git_log, push_result>>
issueVars == <<issue_args, issue>>
agentVars == <<apc, api_key, comments, server, server_starts, shots, attempt,
    tests_passed, failed_at, exit_code, agent_branch, created, agent_log>>
reviewVars == <<variant, review_output, verdict, vpc, iteration, visual_file,
    verdict_reads, prompts, pr_comments, review_exit, pr_labels, review_log>>
shotVars == <<spc, shot_dir, dir_at_return, shot_result>>
healVars == <<hpc, max_attempts, heal_attempt, heal_log, heal_result>>
templateVars == <<tpc, template, kwargs, rendered>>
otherVars == <<pushVars, issueVars, agentVars, reviewVars, shotVars, healVars,
    templateVars>>
exceptPush == <<cliVars, issueVars, agentVars, reviewVars, shotVars, healVars,
    templateVars>>
exceptIssue == <<cliVars, pushVars, agentVars, reviewVars, shotVars, healVars,
    templateVars>>
exceptAgent == <<cliVars, pushVars, issueVars, reviewVars, shotVars, healVars,
    templateVars>>
exceptReview == <<cliVars, pushVars, issueVars, agentVars, shotVars, healVars,
    templateVars>>
exceptShot == <<cliVars, pushVars, issueVars, agentVars, reviewVars, healVars,
    templateVars>>
exceptHeal == <<cliVars, pushVars, issueVars, agentVars, reviewVars, shotVars,
    templateVars>>
exceptTemplate == <<cliVars, pushVars, issueVars, agentVars, reviewVars, shotVars,
    healVars>>
beyondAgent == <<cliVars, pushVars, reviewVars, shotVars, healVars, templateVars>>
beyondReview == <<cliVars, pushVars, agentVars, shotVars, healVars, templateVars>>
vars == <<cliVars, otherVars>>

(***************************************************************************)
(* Inputs                                                                  *)
(***************************************************************************)

ModelA == <<"m", "/", "a">>
ModelB == <<"m", "/", "b">>
Models == {ModelA, ModelB}
\* plan_model: None, "", or a model id
PlanModels == {None, <<>>} \cup Models

\* two spellings of the same state directory
DirPlain == <<".", "c", "l", "i", "n", "e">>
DirSlash == <<".", "c", "l", "i", "n", "e", "/">>
ClineDirs == {DirPlain, DirSlash}

McpPath == <<"m", "c", "p", ".", "j", "s", "o", "n">>
McpPaths == {None, McpPath}
McpOld == <<"o", "l", "d">>
McpNew == <<"n", "e", "w">>
McpContents == {None, McpOld, McpNew}

KeyOne == <<"k", "1">>
KeyTwo == <<"k", "2">>
ApiKeys == {None, <<>>, KeyOne, KeyTwo}

PermissionInputs ==
    {NonePermissions, EmptyPermissions, READ_ONLY_PERMISSIONS}

\* the constructions followed step by step take the default policy
DefaultedPermissions == {NonePermissions, EmptyPermissions}

EnvKeys == {"OPENROUTER_API_KEY", "CLINE_DIR", "CLINE_COMMAND_PERMISSIONS", "HOME"}

\* os.environ.get(key, default)
EnvGet(e, key, default) == IF e[key] = None THEN default ELSE e[key]

(***************************************************************************)
(* ClineRunner.__init__ and _setup_cline_dir                               *)
(***************************************************************************)

NoObject ==
    [cline_dir |-> None, model |-> None, plan_model |-> None, mcp_settings_path |-> None,
     command_permissions |-> NonePermissions]

\* the attributes __init__ assigns
RunnerFields(cline_dir, model, plan_model, mcp_settings_path, command_permissions) ==
    [cline_dir |-> PathOf(cline_dir),
     model |-> model,
     plan_model |-> IF Truthy(plan_model) THEN plan_model ELSE model,
     mcp_settings_path |-> mcp_settings_path,
     command_permissions |->
        IF PermsTruthy(command_permissions) THEN command_permissions
        ELSE DEFAULT_COMMAND_PERMISSIONS]

\* the state directory: data/, data/settings/cline_mcp_settings.json,
\* data/globalState.json, data/secrets.json (None: no such file)
NoGlobalState == [act |-> None, plan |-> None]
EmptyDir ==
    [data_dir |-> FALSE, settings_dir |-> FALSE, mcp_settings |-> None,
     global_state |-> NoGlobalState, secrets |-> None]

\* the dict written to globalState.json (its constant keys left out)
GlobalState(s) == [act |-> s.model, plan |-> s.plan_model]

\* a lookup that always resolves
WhichAlwaysResolves == TRUE

\* shutil.which("cline")
WhichCline == cline_on_path

CtorCall ==
    /\ cpc = "idle"
    /\ \E d \in ClineDirs, m \in Models, p \in PlanModels, mp \in McpPaths,
          cp \in DefaultedPermissions :
            self' = RunnerFields(d, m, p, mp, cp)
    /\ ctor_outcome' = "pending"
    /\ cpc' = "which"
    /\ UNCHANGED <<envVars, fs, runner, prev_model, runArgs, otherVars, runVars, branchVars>>

CtorWhich ==
    /\ cpc = "which"
    /\ IF ~WhichCline
       THEN /\ ctor_outcome' = "FileNotFoundError"
            /\ cpc' = "idle"
            /\ self' = NoObject
       ELSE /\ cpc' = "mkdir"
            /\ UNCHANGED <<ctor_outcome, self>>
    /\ UNCHANGED <<envVars, fs, runner, prev_model, runArgs, otherVars, runVars, branchVars>>

\* data_dir.mkdir(parents=True, exist_ok=True)
Mkdir(f) == [f EXCEPT !.data_dir = TRUE]

SetupMkdir ==
    /\ cpc = "mkdir"
    /\ fs' = Mkdir(fs)
    /\ cpc' = "copy_mcp"
    /\ UNCHANGED <<envVars, self, ctor_outcome, runner, prev_model, runArgs, otherVars, runVars,
                   branchVars>>

\* `if self.mcp_settings_path and self.mcp_settings_path.exists()`
McpProvided(s, src) == s.mcp_settings_path # None /\ src # None

\* lines 193-200
CopyMcp(f, s, src) ==
    IF McpProvided(s, src) THEN [f EXCEPT !.settings_dir = TRUE, !.mcp_settings = src]
    ELSE f

SetupCopyMcp ==
    /\ cpc = "copy_mcp"
    /\ fs' = CopyMcp(fs, self, mcp_source)
    /\ cpc' = "write_state"
    /\ UNCHANGED <<envVars, self, ctor_outcome, runner, prev_model, runArgs, otherVars, runVars,
                   branchVars>>

\* a write that keeps a file already there
WriteGlobalStateIfAbsent(f, s) ==
    IF f.global_state = NoGlobalState THEN [f EXCEPT !.global_state = GlobalState(s)] ELSE f

\* lines 210-220: global_state.write_text(json.dumps(state))
WriteGlobalState(f, s) == [f EXCEPT !.global_state = GlobalState(s)]

SetupWriteGlobalState ==
    /\ cpc = "write_state"
    /\ fs' = WriteGlobalState(fs, self)
    /\ cpc' = "write_secrets"
    /\ UNCHANGED <<envVars, self, ctor_outcome, runner, prev_model, runArgs, otherVars, runVars,
                   branchVars>>

\* `if api_key:` with api_key = os.environ.get("OPENROUTER_API_KEY", "")
SecretsProvided(e) == Truthy(EnvGet(e, "OPENROUTER_API_KEY", <<>>))

\* lines 222-227
WriteSecrets(f, e) ==
    IF SecretsProvided(e) THEN [f EXCEPT !.secrets = EnvGet(e, "OPENROUTER_API_KEY", <<>>)]
    ELSE f

\* _setup_cline_dir as a whole
SetupClineDir(f, s, e, src) == WriteSecrets(WriteGlobalState(CopyMcp(Mkdir(f), s, src), s), e)

SetupWriteSecrets ==
    /\ cpc = "write_secrets"
    /\ fs' = WriteSecrets(fs, environ)
    /\ cpc' = "idle"
    /\ ctor_outcome' = "ok"
    /\ runner' = self
    /\ prev_model' = runner.model
    /\ self' = NoObject
    /\ UNCHANGED <<envVars, runArgs, otherVars, runVars, branchVars>>

\* Between constructions the caller's credential, the descriptor source file and the
\* installed binary may change.
EnvChange ==
    /\ cpc = "idle"
    /\ \E k \in ApiKeys, c \in BOOLEAN, s \in McpContents :
        /\ environ' = [environ EXCEPT !["OPENROUTER_API_KEY"] = k]
        /\ cline_on_path' = c
        /\ mcp_source' = s
        /\ <<environ', cline_on_path', mcp_source'>> # <<environ, cline_on_path, mcp_source>>
    /\ UNCHANGED <<ctorVars, runArgs, otherVars, runVars, branchVars>>

(***************************************************************************)
(* ClineRunner.run: the calling thread                                     *)
(***************************************************************************)

Streams == {"stdout", "stderr"}

\* DEADLINE_BUFFER: `deadline = now + timeout + 30`; HEARTBEAT_EVERY: `check_count % 30`;
\* SLEEP_SECONDS: `_time.sleep(1)`; JOIN_TIMEOUT: `join(timeout=5)`;
\* KILL_CODE: the returncode of a process ended by SIGKILL.
DEADLINE_BUFFER == 30
HEARTBEAT_EVERY == 30
SLEEP_SECONDS == 1
KILL_CODE == -9
JOIN_TIMEOUT == 5

\* what get_openrouter_usage returns: None, a number, or a JSON value that is no number
UsageNone == [kind |-> "none", val |-> 0]
UsageNum(v) == [kind |-> "num", val |-> v]
UsageText == [kind |-> "text", val |-> 0]

\* late: the process ended by itself after the deadline of the loop had passed
NoProc ==
    [state |-> "none", returncode |-> 0, killed |-> FALSE, waited |-> FALSE, late |-> FALSE]

NoOutcome ==
    [kind |-> "none", message |-> <<>>, stdout |-> <<>>, stderr |-> <<>>, exit_code |-> 0,
     cost_usd |-> UsageNone]

\* ClineError(message, stdout, stderr, exit_code)
ClineError(message, out, err, code) ==
    [kind |-> "ClineError", message |-> message, stdout |-> out, stderr |-> err,
     exit_code |-> code, cost_usd |-> UsageNone]

\* ClineResult(stdout, stderr, exit_code, cost_usd)
ClineResult(out, err, code, cost) ==
    [kind |-> "ClineResult", message |-> <<>>, stdout |-> out, stderr |-> err,
     exit_code |-> code, cost_usd |-> cost]

\* ClineResult.success
Success(r) == r.exit_code = 0

\* any other exception leaving run
Raised(kind, message) ==
    [kind |-> kind, message |-> message, stdout |-> <<>>, stderr |-> <<>>, exit_code |-> 0,
     cost_usd |-> UsageNone]

\* a test without the strip
ValidPromptUnstripped(p) == Truthy(p)

\* `if not prompt or not prompt.strip()` is false
ValidPrompt(p) == Truthy(p) /\ Truthy(Strip(p))

Validate ==
    /\ pc = "validate"
    /\ IF ValidPrompt(prompt)
       THEN /\ pc' = "build_cmd"
            /\ UNCHANGED outcome
       ELSE /\ pc' = "done"
            /\ outcome' = Raised("ValueError", MsgEmptyPrompt)
    /\ UNCHANGED <<envVars, ctorVars, runArgs, otherVars, cmd, env, popen_calls, proc, pipe, wrote,
                   rpc, lines, stuck_reason, lock, reason, now, clock, deadline,
                   check_count, last_usage, run_baseline, probe_calls, branchVars>>

\* a command line that names the plan flag whatever the models
CommandLinePlanAlways(s, p, t, c) ==
    <<T_cline, T_y, T_timeout, IntToStr(t), T_p>>
    \o (IF c # None THEN <<T_c, PathOf(c)>> ELSE <<>>)
    \o <<p>>

\* the command line of lines 252-269
CommandLine(s, p, t, c) ==
    <<T_cline, T_y, T_timeout, IntToStr(t)>>
    \o (IF s.plan_model # s.model THEN <<T_p>> ELSE <<>>)
    \o (IF c # None THEN <<T_c, PathOf(c)>> ELSE <<>>)
    \o <<p>>

BuildCmd ==
    /\ pc = "build_cmd"
    /\ cmd' = CommandLine(runner, prompt, timeout, cwd)
    /\ pc' = "build_env"
    /\ UNCHANGED <<envVars, ctorVars, runArgs, otherVars, env, popen_calls, proc, pipe, wrote, rpc,
                   lines, stuck_reason, lock, reason, now, clock, deadline, check_count,
                   last_usage, run_baseline, probe_calls, outcome, branchVars>>

\* an environment with the first override only
ChildEnvWithoutPolicy(s, e) == [e EXCEPT !["CLINE_DIR"] = s.cline_dir]

\* os.environ.copy() with the two overrides of lines 272-273
ChildEnv(s, e) ==
    [e EXCEPT !["CLINE_DIR"] = s.cline_dir,
              !["CLINE_COMMAND_PERMISSIONS"] = JsonDumps(s.command_permissions)]

\* os.environ after `env = os.environ.copy()` and the writes to env: the copy is a dict
\* of its own, so the writes do not reach os.environ
EnvironAfterCopy(s, e) == e

BuildEnv ==
    /\ pc = "build_env"
    /\ env' = ChildEnv(runner, environ)
    /\ environ' = EnvironAfterCopy(runner, environ)
    /\ pc' = "popen"
    /\ UNCHANGED <<cline_on_path, mcp_source, ctorVars, runArgs, otherVars, cmd, popen_calls, proc,
                   pipe, wrote, rpc, lines, stuck_reason, lock, reason, now, clock,
                   deadline, check_count, last_usage, run_baseline, probe_calls, outcome,
                   branchVars>>

\* subprocess.Popen starts the process or raises an OSError
PopenOutcomes == {"started", "FileNotFoundError", "PermissionError"}

\* what `except FileNotFoundError` does with an exception of Popen
StartFailure(e) ==
    IF e = "FileNotFoundError" THEN ClineError(MsgNotFound, <<>>, <<>>, -1)
    ELSE Raised(e, <<>>)

Popen ==
    /\ pc = "popen"
    /\ popen_calls' = Append(popen_calls, [cmd |-> cmd, env |-> env, cwd |-> cwd])
    /\ \E o \in PopenOutcomes :
        IF o = "started"
        THEN /\ proc' = [NoProc EXCEPT !.state = "running"]
             /\ pc' = "start_threads"
             /\ UNCHANGED outcome
        ELSE /\ outcome' = StartFailure(o)
             /\ pc' = "done"
             /\ UNCHANGED proc
    /\ UNCHANGED <<envVars, ctorVars, runArgs, otherVars, cmd, env, pipe, wrote, rpc, lines,
                   stuck_reason, lock, reason, now, clock, deadline, check_count, last_usage,
                   run_baseline, probe_calls, branchVars>>

StartThreads ==
    /\ pc = "start_threads"
    /\ rpc' = [s \in Streams |-> "iter"]
    /\ pc' = "baseline"
    /\ UNCHANGED <<envVars, ctorVars, runArgs, otherVars, cmd, env, popen_calls, proc, pipe, wrote,
                   lines, stuck_reason, lock, reason, now, clock, deadline, check_count,
                   last_usage, run_baseline, probe_calls, outcome, branchVars>>

\* the cumulative spend values the billing endpoint may report
UsageNumbers == {1, 2}

\* get_openrouter_usage(): None without a credential or on any failure, else data.usage
ProbeOutcomes(e) ==
    IF ~Truthy(EnvGet(e, "OPENROUTER_API_KEY", None)) THEN {UsageNone}
    ELSE {UsageNone, UsageText} \cup {UsageNum(v) : v \in UsageNumbers}

Baseline ==
    /\ pc = "baseline"
    /\ \E u \in ProbeOutcomes(environ) :
        /\ last_usage' = u
        /\ run_baseline' = u
    /\ probe_calls' = probe_calls + 1
    /\ pc' = "deadline"
    /\ UNCHANGED <<envVars, ctorVars, runArgs, otherVars, cmd, env, popen_calls, proc, pipe, wrote,
                   rpc, lines, stuck_reason, lock, reason, now, clock, deadline,
                   check_count, outcome, branchVars>>

SetDeadline ==
    /\ pc = "deadline"
    /\ deadline' = clock + timeout + DEADLINE_BUFFER
    /\ check_count' = 0
    /\ pc' = "poll"
    /\ UNCHANGED <<envVars, ctorVars, runArgs, otherVars, cmd, env, popen_calls, proc, pipe, wrote,
                   rpc, lines, stuck_reason, lock, reason, now, clock, last_usage,
                   run_baseline, probe_calls, outcome, branchVars>>

\* the positions of the main thread inside the monitoring loop
WatchdogSteps ==
    {"poll", "timeout_kill", "timeout_wait", "lock", "read_reason", "stuck_kill", "stuck_wait",
     "heartbeat", "sleep"}

\* `while proc.poll() is None:` and the hard-timeout test of the iteration
\* a test that lets the instant of the deadline pass
DeadlineStrictlyPassed(n, d) == n > d

\* `if now >= deadline`
DeadlinePassed(n, d) == n >= d

\* an iteration that tests the deadline before it asks whether the process
\* has exited
DeadlineBeforeExit(p, n, d) ==
    IF DeadlinePassed(n, d) THEN "timeout_kill"
    ELSE IF p.state = "exited" THEN "join_out"
    ELSE "lock"

\* where the iteration goes: the loop condition first, the deadline second,
\* the stuck reason (read under the lock) after both
AfterPoll(p, n, d) ==
    IF p.state = "exited" THEN "join_out"
    ELSE IF DeadlinePassed(n, d) THEN "timeout_kill"
    ELSE "lock"

Poll ==
    /\ pc = "poll"
    /\ pc' = AfterPoll(proc, clock, deadline)
    /\ now' = IF pc' = "join_out" THEN now ELSE clock
    /\ UNCHANGED <<envVars, ctorVars, runArgs, otherVars, cmd, env, popen_calls, proc, pipe, wrote, rpc,
                   lines, stuck_reason, lock, reason, clock, deadline, check_count,
                   last_usage, run_baseline, probe_calls, outcome, branchVars>>

\* proc.kill(): SIGKILL ends a running process; on an exited one it does nothing
Kill(p) ==
    IF p.state = "running"
    THEN [p EXCEPT !.state = "exited", !.returncode = KILL_CODE, !.killed = TRUE]
    ELSE p

\* "\n".join(stdout_lines), "\n".join(stderr_lines)
Captured(s) == Join(<<"\n">>, lines[s])

TimeoutKill ==
    /\ pc = "timeout_kill"
    /\ proc' = Kill(proc)
    /\ pc' = "timeout_wait"
    /\ UNCHANGED <<envVars, ctorVars, runArgs, otherVars, cmd, env, popen_calls, pipe, wrote, rpc,
                   lines, stuck_reason, lock, reason, now, clock, deadline, check_count,
                   last_usage, run_baseline, probe_calls, outcome, branchVars>>

TimeoutError ==
    ClineError(MsgTimedOut \o IntToStr(timeout) \o MsgSeconds,
               Captured("stdout"), Captured("stderr"), -1)

\* proc.wait(), raise TimeoutExpired, and its handler
TimeoutWait ==
    /\ pc = "timeout_wait"
    /\ proc.state = "exited"
    /\ proc' = [proc EXCEPT !.waited = TRUE]
    /\ outcome' = TimeoutError
    /\ pc' = "done"
    /\ UNCHANGED <<envVars, ctorVars, runArgs, otherVars, cmd, env, popen_calls, pipe, wrote, rpc,
                   lines, stuck_reason, lock, reason, now, clock, deadline, check_count,
                   last_usage, run_baseline, probe_calls, branchVars>>

AcquireLock ==
    /\ pc = "lock"
    /\ lock = "free"
    /\ lock' = "main"
    /\ pc' = "read_reason"
    /\ UNCHANGED <<envVars, ctorVars, runArgs, otherVars, cmd, env, popen_calls, proc, pipe, wrote,
                   rpc, lines, stuck_reason, reason, now, clock, deadline, check_count,
                   last_usage, run_baseline, probe_calls, outcome, branchVars>>

\* `reason = stuck_reason`, release, `if reason:`
ReadReason ==
    /\ pc = "read_reason"
    /\ reason' = stuck_reason
    /\ lock' = "free"
    /\ pc' = IF Truthy(stuck_reason) THEN "stuck_kill" ELSE "heartbeat"
    /\ UNCHANGED <<envVars, ctorVars, runArgs, otherVars, cmd, env, popen_calls, proc, pipe, wrote,
                   rpc, lines, stuck_reason, now, clock, deadline, check_count, last_usage,
                   run_baseline, probe_calls, outcome, branchVars>>

StuckKill ==
    /\ pc = "stuck_kill"
    /\ proc' = Kill(proc)
    /\ pc' = "stuck_wait"
    /\ UNCHANGED <<envVars, ctorVars, runArgs, otherVars, cmd, env, popen_calls, pipe, wrote, rpc,
                   lines, stuck_reason, lock, reason, now, clock, deadline, check_count,
                   last_usage, run_baseline, probe_calls, outcome, branchVars>>

StuckError(r) == ClineError(MsgStuckPrefix \o r, Captured("stdout"), Captured("stderr"), -1)

\* proc.wait() and `raise ClineError("Cline appears stuck: ...")`
StuckWait ==
    /\ pc = "stuck_wait"
    /\ proc.state = "exited"
    /\ proc' = [proc EXCEPT !.waited = TRUE]
    /\ outcome' = StuckError(reason)
    /\ pc' = "done"
    /\ UNCHANGED <<envVars, ctorVars, runArgs, otherVars, cmd, env, popen_calls, pipe, wrote, rpc,
                   lines, stuck_reason, lock, reason, now, clock, deadline, check_count,
                   last_usage, run_baseline, probe_calls, branchVars>>

\* Lines 362-378 subtract the probe values and format them with `:.4f`: a value that is
\* no number raises TypeError on the subtraction, ValueError on the format.
HeartbeatRaises(current_usage, last, baseline) ==
    IF current_usage.kind # "none" /\ last.kind # "none"
    THEN IF current_usage.kind = "text" \/ last.kind = "text" \/ baseline.kind = "text"
         THEN "TypeError" ELSE "none"
    ELSE IF current_usage.kind = "text" THEN "ValueError"
    ELSE "none"

\* `check_count += 1` and the heartbeat of every 30th iteration
Heartbeat ==
    /\ pc = "heartbeat"
    /\ check_count' = check_count + 1
    /\ IF check_count' % HEARTBEAT_EVERY = 0
       THEN /\ probe_calls' = probe_calls + 1
            /\ \E u \in ProbeOutcomes(environ) :
                IF HeartbeatRaises(u, last_usage, run_baseline) # "none"
                THEN /\ outcome' = Raised(HeartbeatRaises(u, last_usage, run_baseline), <<>>)
                     /\ pc' = "done"
                     /\ UNCHANGED last_usage
                ELSE /\ last_usage' = IF u.kind # "none" THEN u ELSE last_usage
                     /\ pc' = "sleep"
                     /\ UNCHANGED outcome
       ELSE /\ pc' = "sleep"
            /\ UNCHANGED <<probe_calls, last_usage, outcome>>
    /\ UNCHANGED <<envVars, ctorVars, runArgs, otherVars, cmd, env, popen_calls, proc, pipe, wrote, rpc,
                   lines, stuck_reason, lock, reason, now, clock, deadline,
                   run_baseline, branchVars>>

\* `_time.sleep(1)` returns after at least a second; the model lets time pass here only, so
\* poll_seconds is the time from one reading of the clock to the next
Sleep ==
    /\ pc = "sleep"
    /\ poll_seconds >= SLEEP_SECONDS
    /\ clock' = clock + poll_seconds
    /\ pc' = "poll"
    /\ UNCHANGED <<envVars, ctorVars, runArgs, otherVars, cmd, env, popen_calls, proc, pipe, wrote,
                   rpc, lines, stuck_reason, lock, reason, now, deadline, check_count,
                   last_usage, run_baseline, probe_calls, outcome, branchVars>>

\* t.join(timeout=5) returns when the thread has finished ...
JoinFinished(s, next) ==
    /\ rpc[s] = "done"
    /\ pc' = next
    /\ UNCHANGED clock

\* ... or after 5 seconds while it is still running
JoinTimedOut(s, next) ==
    /\ rpc[s] # "done"
    /\ pc' = next
    /\ clock' = clock + JOIN_TIMEOUT

JoinOut ==
    /\ pc = "join_out"
    /\ \/ JoinFinished("stdout", "join_err")
       \/ JoinTimedOut("stdout", "join_err")
    /\ UNCHANGED <<envVars, ctorVars, runArgs, otherVars, cmd, env, popen_calls, proc, pipe, wrote, rpc,
                   lines, stuck_reason, lock, reason, now, deadline, check_count, last_usage,
                   run_baseline, probe_calls, outcome, branchVars>>

JoinErr ==
    /\ pc = "join_err"
    /\ \/ JoinFinished("stderr", "finish")
       \/ JoinTimedOut("stderr", "finish")
    /\ UNCHANGED <<envVars, ctorVars, runArgs, otherVars, cmd, env, popen_calls, proc, pipe, wrote, rpc,
                   lines, stuck_reason, lock, reason, now, deadline, check_count, last_usage,
                   run_baseline, probe_calls, outcome, branchVars>>

\* `run_cost = max(0.0, final_usage - run_baseline)` when both are not None
RunCost(final_usage, baseline) ==
    IF final_usage.kind = "none" \/ baseline.kind = "none" THEN UsageNone
    ELSE IF final_usage.val - baseline.val > 0 THEN UsageNum(final_usage.val - baseline.val)
    ELSE UsageNum(0)

CostRaises(final_usage, baseline) ==
    /\ final_usage.kind # "none"
    /\ baseline.kind # "none"
    /\ (final_usage.kind = "text" \/ baseline.kind = "text")

ExitError(code, out, err) == ClineError(MsgExited \o IntToStr(code), out, err, code)

\* what lines 420-439 return or raise for a process that exited
Report(out, err, code, cost) ==
    IF Success(ClineResult(out, err, code, cost)) THEN ClineResult(out, err, code, cost)
    ELSE ExitError(code, out, err)

\* lines 393-439: collect the buffers, sample the final usage, return or raise
Finish ==
    /\ pc = "finish"
    /\ probe_calls' = probe_calls + 1
    /\ \E u \in ProbeOutcomes(environ) :
        outcome' = IF CostRaises(u, run_baseline) THEN Raised("TypeError", <<>>)
                   ELSE Report(Captured("stdout"), Captured("stderr"), proc.returncode,
                               RunCost(u, run_baseline))
    /\ pc' = "done"
    /\ UNCHANGED <<envVars, ctorVars, runArgs, otherVars, cmd, env, popen_calls, proc, pipe, wrote,
                   rpc, lines, stuck_reason, lock, reason, now, clock, deadline,
                   check_count, last_usage, run_baseline, branchVars>>

(***************************************************************************)
(* The external process and the two reader threads                         *)
(***************************************************************************)

\* lines a stream may carry: plain output, and two interactive prompts

LineOk == <<"o", "k">>
LineAsk == <<"C", "o", "n", "t", "i", "n", "u", "e", "?", " ", "(", "Y", "/", "N", ")">>
LineEnter == <<"P", "R", "E", "S", "S", " ", "E", "N", "T", "E", "R">>
OutputLines(s) == IF s = "stdout" THEN {LineOk, LineAsk} ELSE {LineOk, LineEnter}

\* the exit codes of a process that ends by itself (negative: ended by a signal)
ExitCodes == {0, 1, -15}

\* most lines the process writes to one stream
MaxLines == 1

\* the model follows an invocation until run returns or raises
RunOver == pc = "done"

ProcWrite(s) ==
    /\ ~RunOver
    /\ proc.state = "running"
    /\ Len(wrote[s]) < quota[s]
    /\ \E l \in OutputLines(s) :
        /\ pipe' = [pipe EXCEPT ![s] = Append(@, l \o <<"\n">>)]
        /\ wrote' = [wrote EXCEPT ![s] = Append(@, l)]
    /\ UNCHANGED <<envVars, ctorVars, runArgs, otherVars, pc, cmd, env, popen_calls, proc, rpc, lines,
                   stuck_reason, lock, reason, now, clock, deadline, check_count, last_usage,
                   run_baseline, probe_calls, outcome, branchVars>>

\* the loop is running and its deadline has passed
PastDeadline == pc \in WatchdogSteps /\ clock >= deadline

ProcExit ==
    /\ ~RunOver
    /\ proc.state = "running"
    /\ \E c \in ExitCodes :
        proc' = [proc EXCEPT !.state = "exited", !.returncode = c, !.late = PastDeadline]
    /\ UNCHANGED <<envVars, ctorVars, runArgs, otherVars, pc, cmd, env, popen_calls, pipe, wrote, rpc,
                   lines, stuck_reason, lock, reason, now, clock, deadline, check_count,
                   last_usage, run_baseline, probe_calls, outcome, branchVars>>

\* a comparison that keeps the letter case
MatchesCaseSensitive(pattern, line) == Contains(pattern, line)

\* `pattern.lower() in line.lower()`
Matches(pattern, line) == Contains(Lower(pattern), Lower(line))

IsStuckLine(line) == \E i \in 1..Len(STUCK_PATTERNS) : Matches(STUCK_PATTERNS[i], line)

\* the first pattern of the list that the line matches
FirstMatch(line) ==
    STUCK_PATTERNS[CHOOSE i \in 1..Len(STUCK_PATTERNS) :
        /\ Matches(STUCK_PATTERNS[i], line)
        /\ \A j \in 1..(i - 1) : ~Matches(STUCK_PATTERNS[j], line)]

\* f"Detected stuck pattern: '{pattern}' in: {line}"
StuckReason(line) == MsgDetected \o FirstMatch(line) \o MsgIn \o line

LastLine(s) == lines[s][Len(lines[s])]

\* one pass of `for raw in stream`: take a line, append it, scan it for the patterns
ReaderRead(s) ==
    /\ ~RunOver
    /\ rpc[s] = "iter"
    /\ pipe[s] # <<>>
    /\ LET line == RStripNewline(Head(pipe[s]))
       IN  /\ lines' = [lines EXCEPT ![s] = Append(@, line)]
           /\ rpc' = [rpc EXCEPT ![s] = IF IsStuckLine(line) THEN "lock" ELSE "iter"]
    /\ pipe' = [pipe EXCEPT ![s] = Tail(@)]
    /\ UNCHANGED <<envVars, ctorVars, runArgs, otherVars, pc, cmd, env, popen_calls, proc, wrote,
                   stuck_reason, lock, reason, now, clock, deadline, check_count, last_usage,
                   run_baseline, probe_calls, outcome, branchVars>>

\* the stream ends once the process has exited and the pipe is drained
ReaderEof(s) ==
    /\ ~RunOver
    /\ rpc[s] = "iter"
    /\ pipe[s] = <<>>
    /\ proc.state = "exited"
    /\ rpc' = [rpc EXCEPT ![s] = "done"]
    /\ UNCHANGED <<envVars, ctorVars, runArgs, otherVars, pc, cmd, env, popen_calls, proc, pipe, wrote,
                   lines, stuck_reason, lock, reason, now, clock, deadline, check_count,
                   last_usage, run_baseline, probe_calls, outcome, branchVars>>

\* a reader that goes on to its assignment without taking the lock
ReaderSkipsLock(s) ==
    /\ ~RunOver
    /\ rpc[s] = "lock"
    /\ rpc' = [rpc EXCEPT ![s] = "write"]
    /\ UNCHANGED <<envVars, ctorVars, runArgs, otherVars, pc, cmd, env, popen_calls, proc, pipe, wrote,
                   lines, stuck_reason, reason, now, clock, deadline, check_count, last_usage,
                   run_baseline, probe_calls, outcome, branchVars, lock>>

\* `with lock:`
ReaderAcquire(s) ==
    /\ ~RunOver
    /\ rpc[s] = "lock"
    /\ lock = "free"
    /\ lock' = s
    /\ rpc' = [rpc EXCEPT ![s] = "write"]
    /\ UNCHANGED <<envVars, ctorVars, runArgs, otherVars, pc, cmd, env, popen_calls, proc, pipe, wrote,
                   lines, stuck_reason, reason, now, clock, deadline, check_count, last_usage,
                   run_baseline, probe_calls, outcome, branchVars>>

\* a reader that returns without leaving the `with` block
ReaderWriteKeepsLock(s) ==
    /\ ~RunOver
    /\ rpc[s] = "write"
    /\ stuck_reason' = StuckReason(LastLine(s))
    /\ rpc' = [rpc EXCEPT ![s] = "done"]
    /\ UNCHANGED <<envVars, ctorVars, runArgs, otherVars, pc, cmd, env, popen_calls, proc, pipe, wrote,
                   lines, reason, now, clock, deadline, check_count, last_usage, run_baseline,
                   probe_calls, outcome, branchVars, lock>>

\* `stuck_reason = ...`, release, `return`
ReaderWrite(s) ==
    /\ ~RunOver
    /\ rpc[s] = "write"
    /\ stuck_reason' = StuckReason(LastLine(s))
    /\ lock' = "free"
    /\ rpc' = [rpc EXCEPT ![s] = "done"]
    /\ UNCHANGED <<envVars, ctorVars, runArgs, otherVars, pc, cmd, env, popen_calls, proc, pipe, wrote,
                   lines, reason, now, clock, deadline, check_count, last_usage, run_baseline,
                   probe_calls, outcome, branchVars>>

Reader(s) == ReaderRead(s) \/ ReaderEof(s) \/ ReaderAcquire(s) \/ ReaderWrite(s)

(***************************************************************************)
(* git_ops.create_branch, called by concurrent workflow runs that share    *)
(* origin and have a clone each                                            *)
(***************************************************************************)

Runs == {1, 2}

\* `max_attempts = 20`
MAX_ATTEMPTS == 20

BranchBase == <<"r", "/", "i", "1">>
BranchInputs == {BranchBase, <<" ">> \o BranchBase \o <<" ">>, <<" ">>}

\* a suffix one version ahead
VersionedAhead(n, v) == n \o <<"-", "v">> \o IntToStr(v + 1)

\* f"{name}-v{version}"
Versioned(n, v) == n \o <<"-", "v">> \o IntToStr(v)

\* the k-th candidate name: X, X-v2, X-v3, ...
Candidate(n, k) == IF k = 1 THEN n ELSE Versioned(n, k)

\* origin may already hold the first k candidates, for these k
RemotePrefixes == {0, 1, 2, 18, 19, 20}

NoBranchResult == [kind |-> "none", branch |-> <<>>]
Returned(b) == [kind |-> "returned", branch |-> b]
BranchRaised(e) == [kind |-> e, branch |-> <<>>]

\* lines 111-117: validation, strip, fetch
BranchStart(r) ==
    /\ bpc[r] = "start"
    /\ IF ~Truthy(name[r]) \/ ~Truthy(Strip(name[r]))
       THEN /\ branch_result' = [branch_result EXCEPT ![r] = BranchRaised("ValueError")]
            /\ bpc' = [bpc EXCEPT ![r] = "done"]
            /\ UNCHANGED name
       ELSE /\ name' = [name EXCEPT ![r] = Strip(@)]
            /\ bpc' = [bpc EXCEPT ![r] = "init"]
            /\ UNCHANGED branch_result
    /\ UNCHANGED <<envVars, ctorVars, runArgs, otherVars, runVars, remote, unique_name, version, local,
                   checked>>

\* lines 131-133
BranchInit(r) ==
    /\ bpc[r] = "init"
    /\ unique_name' = [unique_name EXCEPT ![r] = name[r]]
    /\ version' = [version EXCEPT ![r] = 2]
    /\ bpc' = [bpc EXCEPT ![r] = "loop"]
    /\ UNCHANGED <<envVars, ctorVars, runArgs, otherVars, runVars, remote, name, local, checked,
                   branch_result>>

\* `git ls-remote --heads origin <name>` printed something
ExistsOnRemote(n) == n \in remote

\* lines 135-150: one turn of the while loop, or the check that follows it
BranchLoop(r) ==
    /\ bpc[r] = "loop"
    /\ IF version[r] <= MAX_ATTEMPTS
       THEN /\ checked' = [checked EXCEPT ![r] =
                    Append(@, [name |-> unique_name[r],
                               exists |-> ExistsOnRemote(unique_name[r])])]
            /\ IF ~ExistsOnRemote(unique_name[r])
               THEN /\ bpc' = [bpc EXCEPT ![r] = "checkout"]
                    /\ UNCHANGED <<unique_name, version, branch_result>>
               ELSE /\ unique_name' = [unique_name EXCEPT ![r] = Versioned(name[r], version[r])]
                    /\ version' = [version EXCEPT ![r] = @ + 1]
                    /\ UNCHANGED <<bpc, branch_result>>
       ELSE /\ branch_result' = [branch_result EXCEPT ![r] = BranchRaised("GitError")]
            /\ bpc' = [bpc EXCEPT ![r] = "done"]
            /\ UNCHANGED <<unique_name, version, checked>>
    /\ UNCHANGED <<envVars, ctorVars, runArgs, otherVars, runVars, remote, name, local>>

\* lines 155-158: `git checkout -b` fails when the clone already has the branch
BranchCheckout(r) ==
    /\ bpc[r] = "checkout"
    /\ IF unique_name[r] \in local[r]
       THEN /\ branch_result' = [branch_result EXCEPT ![r] = BranchRaised("GitError")]
            /\ UNCHANGED local
       ELSE /\ local' = [local EXCEPT ![r] = @ \cup {unique_name[r]}]
            /\ branch_result' = [branch_result EXCEPT ![r] = Returned(unique_name[r])]
    /\ bpc' = [bpc EXCEPT ![r] = "done"]
    /\ UNCHANGED <<envVars, ctorVars, runArgs, otherVars, runVars, remote, name, unique_name, version,
                   checked>>

\* commit_and_push: `git push origin <branch>` publishes the branch of a finished run
BranchPush(r) ==
    /\ bpc[r] = "done"
    /\ branch_result[r].kind = "returned"
    /\ remote' = remote \cup {branch_result[r].branch}
    /\ bpc' = [bpc EXCEPT ![r] = "pushed"]
    /\ UNCHANGED <<envVars, ctorVars, runArgs, otherVars, runVars, name, unique_name, version, local,
                   checked, branch_result>>

CreateBranch(r) ==
    BranchStart(r) \/ BranchInit(r) \/ BranchLoop(r) \/ BranchCheckout(r) \/ BranchPush(r)

(***************************************************************************)
(* git_ops.commit_and_push                                                 *)
(***************************************************************************)

PathCode == <<"a", "p", "p", ".", "p", "y">>
PathSecrets ==
    <<".", "c", "l", "i", "n", "e", "-", "a", "g", "e", "n", "t", "/", "d", "a", "t",
      "a", "/", "s", "e", "c", "r", "e", "t", "s", ".", "j", "s", "o", "n">>
PathState ==
    <<".", "c", "l", "i", "n", "e", "-", "a", "g", "e", "n", "t", "/", "d", "a", "t",
      "a", "/", "g", "l", "o", "b", "a", "l", "S", "t", "a", "t", "e", ".", "j", "s",
      "o", "n">>
\* a name that differs from a sensitive one by letter case
PathUpper == <<"S", "e", "c", "r", "e", "t", "s", ".", "j", "s", "o", "n">>
ChangedPaths == {PathCode, PathSecrets, PathState, PathUpper}

SecretsName == <<"s", "e", "c", "r", "e", "t", "s", ".", "j", "s", "o", "n">>
StateName ==
    <<"g", "l", "o", "b", "a", "l", "S", "t", "a", "t", "e", ".", "j", "s", "o", "n">>
ErrNonFastForward ==
    <<"n", "o", "n", "-", "f", "a", "s", "t", "-", "f", "o", "r", "w", "a", "r", "d">>
ErrRejected == <<"r", "e", "j", "e", "c", "t", "e", "d">>
\* what a failed `git push` may print
StderrNonFastForward ==
    <<"!", " ", "[", "r", "e", "j", "e", "c", "t", "e", "d", "]", " ", "m", "a", "i",
      "n", " ", "(", "n", "o", "n", "-", "f", "a", "s", "t", "-", "f", "o", "r", "w",
      "a", "r", "d", ")">>
StderrRejected ==
    <<"!", " ", "[", "r", "e", "m", "o", "t", "e", " ", "r", "e", "j", "e", "c", "t",
      "e", "d", "]", " ", "m", "a", "i", "n", " ", "(", "h", "o", "o", "k", " ", "d",
      "e", "c", "l", "i", "n", "e", "d", ")">>
StderrDenied ==
    <<"f", "a", "t", "a", "l", ":", " ", "A", "u", "t", "h", "e", "n", "t", "i", "c",
      "a", "t", "i", "o", "n", " ", "f", "a", "i", "l", "e", "d">>
PushStderrs == {StderrNonFastForward, StderrRejected, StderrDenied}

CommitMessage == <<"f", "i", "x">>
CommitMessages == {<<>>, <<" ">>, CommitMessage}
PushBranches == {<<>>, BranchBase, <<" ">> \o BranchBase}

NoPushResult == [kind |-> "none", why |-> "none"]
PushReturned == [kind |-> "returned", why |-> "none"]
PushRaised(k, w) == [kind |-> k, why |-> w]

\* one subprocess call of _run_git
GitCall(c, p, ok, out) == [cmd |-> c, paths |-> p, ok |-> ok, out |-> out]

\* a checked git command that exits non-zero raises GitError out of commit_and_push
GitFails(c, p) ==
    /\ git_log' = Append(git_log, GitCall(c, p, FALSE, {}))
    /\ kpc' = "done"
    /\ push_result' = PushRaised("GitError", c)

PushValidate ==
    /\ kpc = "validate"
    /\ IF ~Truthy(commit_message) \/ ~Truthy(Strip(commit_message))
       THEN kpc' = "done" /\ push_result' = PushRaised("ValueError", "message")
       ELSE IF ~Truthy(branch) \/ ~Truthy(Strip(branch))
            THEN kpc' = "done" /\ push_result' = PushRaised("ValueError", "branch")
            ELSE kpc' = "add" /\ UNCHANGED push_result
    /\ UNCHANGED <<exceptPush, commit_message, branch, tree, index, secret_files, git_log>>

\* git add -A
PushAdd ==
    /\ kpc = "add"
    /\ \/ /\ git_log' = Append(git_log, GitCall("add", {}, TRUE, {}))
          /\ index' = index \cup tree
          /\ tree' = {}
          /\ kpc' = "diff"
          /\ UNCHANGED push_result
       \/ GitFails("add", {}) /\ UNCHANGED <<tree, index>>
    /\ UNCHANGED <<exceptPush, commit_message, branch, secret_files>>

\* a staged file is one of Cline's state files
IsSensitiveStateOnly(f) == Contains(StateName, f)

IsSensitive(f) == Contains(SecretsName, f) \/ Contains(StateName, f)

\* git diff --cached --name-only, and the filter over its output
PushDiff ==
    /\ kpc = "diff"
    /\ \/ /\ git_log' = Append(git_log, GitCall("diff", {}, TRUE, index))
          /\ secret_files' = {f \in index : IsSensitive(f)}
          /\ kpc' = IF secret_files' # {} THEN "reset" ELSE "status"
          /\ UNCHANGED push_result
       \/ GitFails("diff", {}) /\ UNCHANGED secret_files
    /\ UNCHANGED <<exceptPush, commit_message, branch, tree, index>>

\* git reset HEAD <secret_files>, then GitError
PushReset ==
    /\ kpc = "reset"
    /\ \/ /\ git_log' = Append(git_log, GitCall("reset", secret_files, TRUE, {}))
          /\ index' = index \ secret_files
          /\ tree' = tree \cup secret_files
          /\ kpc' = "done"
          /\ push_result' = PushRaised("GitError", "secrets")
       \/ GitFails("reset", secret_files) /\ UNCHANGED <<tree, index>>
    /\ UNCHANGED <<exceptPush, commit_message, branch, secret_files>>

\* git status --porcelain
PushStatus ==
    /\ kpc = "status"
    /\ \/ /\ git_log' = Append(git_log, GitCall("status", {}, TRUE, index \cup tree))
          /\ IF index \cup tree = {}
             THEN kpc' = "done" /\ push_result' = PushRaised("GitError", "no changes")
             ELSE kpc' = "commit" /\ UNCHANGED push_result
       \/ GitFails("status", {})
    /\ UNCHANGED <<exceptPush, commit_message, branch, tree, index, secret_files>>

\* git commit -m message
PushCommit ==
    /\ kpc = "commit"
    /\ \/ /\ git_log' = Append(git_log, GitCall("commit", index, TRUE, {}))
          /\ index' = {}
          /\ kpc' = "push"
          /\ UNCHANGED push_result
       \/ GitFails("commit", index) /\ UNCHANGED index
    /\ UNCHANGED <<exceptPush, commit_message, branch, tree, secret_files>>

\* the first push is retried
ShouldRetryAlways(stderr) == TRUE

ShouldRetry(stderr) == Contains(ErrNonFastForward, stderr) \/ Contains(ErrRejected, stderr)

\* git push origin branch, unchecked; its exit code and stderr decide what follows
PushFirst ==
    /\ kpc = "push"
    /\ \/ /\ git_log' = Append(git_log, GitCall("push", {branch}, TRUE, {}))
          /\ kpc' = "done"
          /\ push_result' = PushReturned
       \/ \E stderr \in PushStderrs :
            /\ git_log' = Append(git_log, GitCall("push", {branch}, FALSE, {stderr}))
            /\ IF ShouldRetry(stderr)
               THEN kpc' = "pull" /\ UNCHANGED push_result
               ELSE kpc' = "done" /\ push_result' = PushRaised("GitError", "push failed")
    /\ UNCHANGED <<exceptPush, commit_message, branch, tree, index, secret_files>>

\* git pull --rebase origin branch
PushPull ==
    /\ kpc = "pull"
    /\ \/ /\ git_log' = Append(git_log, GitCall("pull", {branch}, TRUE, {}))
          /\ kpc' = "push_again"
          /\ UNCHANGED push_result
       \/ GitFails("pull", {branch})
    /\ UNCHANGED <<exceptPush, commit_message, branch, tree, index, secret_files>>

\* git push origin branch, checked
PushAgain ==
    /\ kpc = "push_again"
    /\ \/ /\ git_log' = Append(git_log, GitCall("push", {branch}, TRUE, {}))
          /\ kpc' = "done"
          /\ push_result' = PushReturned
       \/ GitFails("push", {branch})
    /\ UNCHANGED <<exceptPush, commit_message, branch, tree, index, secret_files>>

CommitAndPush ==
    \/ PushValidate \/ PushAdd \/ PushDiff \/ PushReset \/ PushStatus \/ PushCommit
    \/ PushFirst \/ PushPull \/ PushAgain

\* commit_and_push has been called on a work tree with these changes
PushCalled(m, b, t) ==
    /\ kpc = "validate"
    /\ commit_message = m /\ branch = b
    /\ tree = t
    /\ index = {}
    /\ secret_files = {}
    /\ git_log = <<>>
    /\ push_result = NoPushResult

PushUnused == PushCalled(<<>>, <<>>, {})

(***************************************************************************)
(* issue_parser.parse_issue                                                *)
(***************************************************************************)

\* s.split(sep) for a one-character separator
RECURSIVE Split(_, _)
Split(s, sep) ==
    IF \E i \in 1..Len(s) : s[i] = sep
    THEN LET i == CHOOSE k \in 1..Len(s) : s[k] = sep /\ \A j \in 1..(k - 1) : s[j] # sep
         IN  <<SubSeq(s, 1, i - 1)>> \o Split(SubSeq(s, i + 1, Len(s)), sep)
    ELSE <<s>>

DigitValue(c) == (CHOOSE i \in 1..10 : Digits[i] = c) - 1
IsDigit(c) == \E i \in 1..10 : Digits[i] = c

\* the value of a run of digits and underscores, left to right
RECURSIVE DigitsValue(_, _)
DigitsValue(s, acc) ==
    IF s = <<>> THEN acc
    ELSE IF Head(s) = "_" THEN DigitsValue(Tail(s), acc)
    ELSE DigitsValue(Tail(s), 10 * acc + DigitValue(Head(s)))

\* int(text): surrounding whitespace, one sign, digits with single underscores between
\* them; anything else raises ValueError
ParseInt(text) ==
    LET s == Strip(text)
        signed == s # <<>> /\ Head(s) \in {"+", "-"}
        d == IF signed THEN Tail(s) ELSE s
        wellFormed ==
            /\ d # <<>>
            /\ \A i \in 1..Len(d) : IsDigit(d[i]) \/ d[i] = "_"
            /\ IsDigit(d[1]) /\ IsDigit(d[Len(d)])
            /\ \A i \in 1..(Len(d) - 1) : ~(d[i] = "_" /\ d[i + 1] = "_")
    IN  IF ~wellFormed THEN [ok |-> FALSE, value |-> 0]
        ELSE [ok |-> TRUE,
              value |-> IF signed /\ Head(s) = "-" THEN 0 - DigitsValue(d, 0)
                        ELSE DigitsValue(d, 0)]

NoIssue == [kind |-> "none"]
IssueError(w) == [kind |-> "ValueError", why |-> w]
Issue(n, t, b, l) == [kind |-> "Issue", number |-> n, title |-> t, body |-> b, labels |-> l]

\* frozenset(lbl.strip().lower() for lbl in labels.split(",") if lbl.strip())
ParseLabels(labels) ==
    LET parts == Split(labels, ",")
    IN  {Lower(Strip(parts[i])) : i \in {j \in 1..Len(parts) : Truthy(Strip(parts[j]))}}

\* the issue number is rejected
NumberRejectedBelowZero(n) == n < 0

NumberRejected(n) == n <= 0

parse_issue(number, title, body, labels) ==
    IF ~Truthy(number) \/ ~Truthy(Strip(number)) THEN IssueError("number missing")
    ELSE IF ~ParseInt(Strip(number)).ok THEN IssueError("number not an integer")
    ELSE IF NumberRejected(ParseInt(Strip(number)).value)
         THEN IssueError("number not positive")
    ELSE IF ~Truthy(title) \/ ~Truthy(Strip(title)) THEN IssueError("title")
    ELSE IF ~Truthy(body) \/ ~Truthy(Strip(body)) THEN IssueError("body")
    ELSE Issue(ParseInt(Strip(number)).value, Strip(title), Strip(body), ParseLabels(labels))

T_frontend == <<"f", "r", "o", "n", "t", "e", "n", "d">>

\* the labels of an issue name the frontend somewhere
is_frontend_loosely(i) == \E l \in i.labels : Contains(T_frontend, l)

\* Issue.is_frontend
is_frontend(i) == T_frontend \in i.labels

\* texts ISSUE_NUMBER can hold
NumberTexts ==
    {None, <<>>, <<" ">>,
     <<"7">>,
     <<" ", "7", "\n">>,
     <<"0">>,
     <<"-", "3">>,
     <<"+", "4">>,
     <<"1", "_", "2">>,
     <<"0", "7">>,
     <<"a", "b", "c">>,
     <<"4", ".", "5">>,
     <<"1", "_", "_", "2">>,
     <<"1", "_">>,
     <<"-">>,
     <<"1", " ", "2">>}
FieldTexts == {None, <<>>, <<" ", "\n">>, <<"T">>, <<" ", "T", "x", " ">>}
\* texts ISSUE_LABELS can hold
LabelTexts ==
    {<<>>,
     <<"f", "r", "o", "n", "t", "e", "n", "d">>,
     <<" ", "F", "r", "o", "n", "t", "e", "n", "d", " ", ",", "b", "u", "g">>,
     <<"b", "u", "g", ",", "F", "R", "O", "N", "T", "E", "N", "D">>,
     <<"b", "u", "g">>,
     <<"f", "r", "o", "n", "t", "e", "n", "d", "-", "u", "i">>,
     <<",", "f", "r", "o", "n", "t", " ", "e", "n", "d", ",">>,
     <<"b", "a", "c", "k", ",", "f", "r", "o", "n", "t", "e", "n", "d", " ", "u", "i">>}

ParseIssueCall ==
    /\ issue = NoIssue
    /\ issue' = parse_issue(issue_args.number, issue_args.title, issue_args.body,
                            issue_args.labels)
    /\ UNCHANGED <<exceptIssue, issue_args>>

IssueUnused ==
    /\ issue_args = [number |-> None, title |-> None, body |-> None, labels |-> <<>>]
    /\ issue = NoIssue

(***************************************************************************)
(* ralph_agent.main                                                        *)
(***************************************************************************)

MAX_CODING_ATTEMPTS == 3
NOT_EXITED == -1

\* require_env: the variable is set and not blank
EnvPresent(value) == Truthy(value) /\ Truthy(Strip(value))

\* an exception leaves main and the __main__ block exits with code 1
AgentFails(step) ==
    /\ apc' = "exit"
    /\ failed_at' = step
    /\ exit_code' = 1

AgentGoes(next) ==
    /\ apc' = next
    /\ UNCHANGED <<failed_at, exit_code>>

\* post_issue_comment with a status summary; gh may fail
PostComment(status, posted) ==
    comments' = IF posted THEN Append(comments, status) ELSE comments

\* 1. parse_issue(require_env(..), require_env(..), require_env(..)), then the API key
AgentValidate ==
    /\ apc = "validate"
    /\ IF ~(EnvPresent(issue_args.number) /\ EnvPresent(issue_args.title)
            /\ EnvPresent(issue_args.body))
       THEN AgentFails("require_env") /\ UNCHANGED issue
       ELSE /\ issue' = parse_issue(Strip(issue_args.number), Strip(issue_args.title),
                                    Strip(issue_args.body), <<>>)
            /\ IF issue'.kind # "Issue" THEN AgentFails("parse_issue")
               ELSE IF ~EnvPresent(api_key) THEN AgentFails("require_env")
               ELSE AgentGoes("git_user")
    /\ UNCHANGED <<beyondAgent, issue_args, api_key, comments, server, server_starts,
                   shots, attempt, tests_passed, agent_branch, created, agent_log>>

\* 2. configure_git_user()
AgentGitUser ==
    /\ apc = "git_user"
    /\ \/ AgentGoes("branch")
       \/ AgentFails("configure_git_user")
    /\ UNCHANGED <<beyondAgent, issueVars, api_key, comments, server, server_starts, shots,
                   attempt, tests_passed, agent_branch, created, agent_log>>

SlugChar(c) == (\E i \in 1..Len(LowerCase) : LowerCase[i] = c) \/ IsDigit(c)

\* re.sub(r"[^a-z0-9]+", "-", s): every run of other characters becomes one hyphen
RECURSIVE Hyphenate(_, _)
Hyphenate(s, in_run) ==
    IF s = <<>> THEN <<>>
    ELSE IF SlugChar(Head(s)) THEN <<Head(s)>> \o Hyphenate(Tail(s), FALSE)
    ELSE (IF in_run THEN <<>> ELSE <<"-">>) \o Hyphenate(Tail(s), TRUE)

RECURSIVE LStripHyphen(_)
LStripHyphen(s) == IF s # <<>> /\ Head(s) = "-" THEN LStripHyphen(Tail(s)) ELSE s

RECURSIVE RStripHyphen(_)
RStripHyphen(s) ==
    IF s # <<>> /\ s[Len(s)] = "-" THEN RStripHyphen(SubSeq(s, 1, Len(s) - 1)) ELSE s

\* s[:n]
FirstChars(s, n) == SubSeq(s, 1, IF Len(s) > n THEN n ELSE Len(s))

\* re.sub(..).strip("-")[:50].rstrip("-")
Slug(title) ==
    RStripHyphen(FirstChars(RStripHyphen(LStripHyphen(Hyphenate(Lower(title), FALSE))), 50))

\* f"ralph/issue-{issue.number}-{slug}"
BranchFor(i) == <<"r", "a", "l", "p", "h", "/", "i", "s", "s", "u", "e", "-">> \o IntToStr(i.number) \o <<"-">> \o Slug(i.title)

\* the most names of the family X, X-v2, .. that origin holds when main starts
MaxTaken == 1

\* one entry of the record of what main ran and asked for
Event(e, n, t) == [ev |-> e, name |-> n, note |-> t]

\* 3. create_branch(branch): the call creates and checks out the first name of
\* X, X-v2, .. that origin does not hold; main keeps its own `branch`
AgentBranch ==
    /\ apc = "branch"
    /\ agent_branch' = BranchFor(issue)
    /\ \/ /\ \E taken \in 0..MaxTaken : created' = Candidate(Strip(agent_branch'), taken + 1)
          /\ AgentGoes("start_comment")
       \/ /\ UNCHANGED created
          /\ AgentFails("create_branch")
    /\ UNCHANGED <<beyondAgent, issueVars, api_key, comments, server, server_starts, shots,
                   attempt, tests_passed, agent_log>>

\* 4. the "started" comment; a GitError is logged and ignored
AgentStartComment ==
    /\ apc = "start_comment"
    /\ \E posted \in BOOLEAN : PostComment("started", posted)
    /\ AgentGoes("runners")
    /\ UNCHANGED <<beyondAgent, issueVars, api_key, server, server_starts, shots, attempt,
                   tests_passed, agent_branch, created, agent_log>>

\* 5. the two ClineRunner constructions
AgentRunners ==
    /\ apc = "runners"
    /\ \/ AgentGoes("server")
       \/ AgentFails("ClineRunner")
    /\ UNCHANGED <<beyondAgent, issueVars, api_key, comments, server, server_starts, shots,
                   attempt, tests_passed, agent_branch, created, agent_log>>

\* start_server(): npm ci, node server.js, 30 readiness polls
StartServer(next, step) ==
    /\ server_starts' = server_starts + 1
    /\ \/ server' = "running" /\ AgentGoes(next)
       \/ UNCHANGED server /\ AgentFails(step)

\* 6. server = start_server()
AgentServer ==
    /\ apc = "server"
    /\ StartServer("before", "start_server")
    /\ UNCHANGED <<beyondAgent, issueVars, api_key, comments, shots, attempt, tests_passed,
                   agent_branch, created, agent_log>>

\* 7. take_screenshot(.., "before", ..); it returns None rather than raise
AgentBefore ==
    /\ apc = "before"
    /\ shots' = Append(shots, "before")
    /\ attempt' = 1
    /\ AgentGoes("agent")
    /\ UNCHANGED <<beyondAgent, issueVars, api_key, comments, server, server_starts,
                   tests_passed, agent_branch, created, agent_log>>

\* the loop runs once more after the last attempt
AttemptsLeftAtLast(a) == a <= MAX_CODING_ATTEMPTS

\* `for attempt in range(1, MAX_CODING_ATTEMPTS + 1)`: another attempt follows this one
AttemptsLeft(a) == a < MAX_CODING_ATTEMPTS

\* 8. coding_cline.run(prompt, ..) of one attempt: it returns, or raises ClineError and
\* the loop continues, or raises something else, which leaves main through the finally block
AgentRun ==
    /\ apc = "agent"
    /\ \/ /\ \E e \in {"agent", "agent_ClineError"} :
                agent_log' = Append(agent_log, Event(e, <<>>, ""))
          /\ UNCHANGED server
          /\ IF AttemptsLeft(attempt)
             THEN attempt' = attempt + 1 /\ AgentGoes("coding")
             ELSE UNCHANGED attempt /\ AgentGoes("final_tests")
       \/ /\ agent_log' = Append(agent_log, Event("agent_raised", <<>>, ""))
          /\ server' = "stopped"
          /\ UNCHANGED attempt
          /\ AgentFails("coding_cline.run")
    /\ UNCHANGED <<beyondAgent, issueVars, api_key, comments, server_starts, shots,
                   tests_passed, agent_branch, created>>

\* a later attempt starts with get_git_diff() and run_tests(): `if test_ok: .. break`
AgentCoding ==
    /\ apc = "coding"
    /\ \/ /\ agent_log' = Append(agent_log, Event("tests_passed", <<>>, ""))
          /\ tests_passed' = TRUE
          /\ AgentGoes("restart")
       \/ /\ agent_log' = Append(agent_log, Event("tests_failed", <<>>, ""))
          /\ UNCHANGED tests_passed
          /\ AgentGoes("agent")
    /\ UNCHANGED <<beyondAgent, issueVars, api_key, comments, server, server_starts, shots,
                   attempt, agent_branch, created>>

\* the final run_tests() when the loop did not see the tests pass
AgentFinalTests ==
    /\ apc = "final_tests"
    /\ \E success \in BOOLEAN :
          /\ tests_passed' = success
          /\ agent_log' = Append(agent_log,
                Event(IF success THEN "tests_passed" ELSE "tests_failed", <<>>, ""))
    /\ AgentGoes("restart")
    /\ UNCHANGED <<beyondAgent, issueVars, api_key, comments, server, server_starts, shots,
                   attempt, agent_branch, created>>

\* 10. stop_server(server); server = start_server(); a failure runs the finally block
AgentRestart ==
    /\ apc = "restart"
    /\ server_starts' = server_starts + 1
    /\ \/ server' = "running" /\ AgentGoes("after")
       \/ server' = "stopped" /\ AgentFails("start_server")
    /\ UNCHANGED <<beyondAgent, issueVars, api_key, comments, shots, attempt, tests_passed,
                   agent_branch, created, agent_log>>

\* take_after_screenshot_with_review, then finally: stop_server(server)
AgentAfter ==
    /\ apc = "after"
    /\ shots' = Append(shots, "after")
    /\ server' = "stopped"
    /\ AgentGoes("commit")
    /\ UNCHANGED <<beyondAgent, issueVars, api_key, comments, server_starts, attempt,
                   tests_passed, agent_branch, created, agent_log>>

\* what the GitError of commit_and_push says
ErrNoChanges == <<"N", "o", " ", "c", "h", "a", "n", "g", "e", "s", " ", "t", "o", " ", "c", "o", "m", "m", "i", "t", ".">>
ErrPushFailed == <<"g", "i", "t", " ", "p", "u", "s", "h", " ", "f", "a", "i", "l", "e", "d">>
PushErrors == {ErrNoChanges, ErrPushFailed}

\* the GitError is swallowed and main goes on to the pull request
PushFailureIgnored == AgentGoes("pr")

\* `raise RuntimeError(f"Commit/push failed: {error_msg}") from e`
PushFailureRaises == AgentFails("commit_and_push")

\* 11. commit_and_push(commit_message, branch); on GitError post_issue_comment with the
\* "failed" summary and the error text, outside any try, then RuntimeError
AgentCommit ==
    /\ apc = "commit"
    /\ \/ /\ agent_log' = Append(agent_log, Event("push", agent_branch, ""))
          /\ AgentGoes("pr")
          /\ UNCHANGED comments
       \/ \E err \in PushErrors : \E posted \in BOOLEAN :
          /\ agent_log' = agent_log \o
                <<Event("push", agent_branch, ""),
                  Event("push_failed", err, ""),
                  Event("failed_comment", err, IF posted THEN "posted" ELSE "GitError")>>
          /\ PostComment("failed", posted)
          /\ PushFailureRaises
    /\ UNCHANGED <<beyondAgent, issueVars, api_key, server, server_starts, shots, attempt,
                   tests_passed, agent_branch, created>>

\* test_status of the pull request body
TestStatus(passed) == IF passed THEN "All tests passing" ELSE "Some tests may be failing"

\* 12. get_repo_name, create_pr(.., head=branch), get_pr_number, and the lines written
\* to GITHUB_OUTPUT when the variable is set
AgentPr ==
    /\ apc = "pr"
    /\ \/ /\ \E github_output \in BOOLEAN :
                agent_log' = agent_log \o
                    <<Event("create_pr", agent_branch, TestStatus(tests_passed))>> \o
                    (IF github_output THEN <<Event("output", agent_branch, "")>> ELSE <<>>)
          /\ AgentGoes("summary")
       \/ /\ UNCHANGED agent_log
          /\ AgentFails("create_pr")
    /\ UNCHANGED <<beyondAgent, issueVars, api_key, comments, server, server_starts, shots,
                   attempt, tests_passed, agent_branch, created>>

\* 13. the "pr_created" comment with tests_passed; a GitError is logged and ignored
AgentSummary ==
    /\ apc = "summary"
    /\ \E posted \in BOOLEAN :
          /\ PostComment("pr_created", posted)
          /\ agent_log' = Append(agent_log,
                Event("pr_created_comment", <<>>, IF tests_passed THEN "True" ELSE "False"))
    /\ apc' = "exit"
    /\ exit_code' = 0
    /\ UNCHANGED failed_at
    /\ UNCHANGED <<beyondAgent, issueVars, api_key, server, server_starts, shots, attempt,
                   tests_passed, agent_branch, created>>

AgentMain ==
    \/ AgentValidate \/ AgentGitUser \/ AgentBranch \/ AgentStartComment \/ AgentRunners
    \/ AgentServer \/ AgentBefore \/ AgentRun \/ AgentCoding \/ AgentFinalTests
    \/ AgentRestart \/ AgentAfter \/ AgentCommit \/ AgentPr \/ AgentSummary

\* main has been started with this API key in the environment
AgentCalled(key) ==
    /\ apc = "validate"
    /\ api_key = key
    /\ comments = <<>>
    /\ server = "none" /\ server_starts = 0
    /\ shots = <<>>
    /\ attempt = 0 /\ tests_passed = FALSE
    /\ failed_at = "none"
    /\ exit_code = NOT_EXITED
    /\ agent_branch = <<>> /\ created = <<>>
    /\ agent_log = <<>>

AgentUnused == AgentCalled(None)

(***************************************************************************)
(* self_review.parse_verdict                                               *)
(***************************************************************************)

\* the characters the re.sub call replaces by a blank
\* the grave accent (U+0060), written out because a TLA+ string cannot hold it
GraveAccent == "grave"
MarkdownNoise == {"*", "_", GraveAccent, ">", "#", "-"}
CleanOutput(s) == [i \in 1..Len(s) |-> IF s[i] \in MarkdownNoise THEN " " ELSE s[i]]

\* str.splitlines() for "\n" line ends: no empty last line after a final line end
SplitLines(s) ==
    LET parts == Split(s, "\n")
    IN  IF parts[Len(parts)] = <<>> THEN SubSeq(parts, 1, Len(parts) - 1) ELSE parts

\* str.find(sub): index of the first occurrence, counted from 0, or -1
Find(sub, s) ==
    IF Contains(sub, s)
    THEN CHOOSE i \in 0..(Len(s) - Len(sub)) :
            /\ SubSeq(s, i + 1, i + Len(sub)) = sub
            /\ \A j \in 0..(i - 1) : SubSeq(s, j + 1, j + Len(sub)) # sub
    ELSE -1

\* s[a:b] for 0 <= a
Slice(s, a, b) == SubSeq(s, a + 1, IF b > Len(s) THEN Len(s) ELSE b)

Max0(n) == IF n < 0 THEN 0 ELSE n

T_verdict == <<"v", "e", "r", "d", "i", "c", "t">>
T_needs_changes == <<"n", "e", "e", "d", "s", " ", "c", "h", "a", "n", "g", "e", "s">>
T_needs_changes_underscore ==
    <<"n", "e", "e", "d", "s", "_", "c", "h", "a", "n", "g", "e", "s">>
T_lgtm == <<"l", "g", "t", "m">>
LGTM == "LGTM"
NEEDS_CHANGES == "NEEDS CHANGES"
WINDOW_BEFORE == 100
WINDOW_AFTER == 50

\* what one line of the cleaned output decides: a verdict, or "" for none
LineVerdict(line) ==
    LET line_stripped == Lower(Strip(line))
        after_colon == Strip(Join(<<":">>, Tail(Split(line_stripped, ":"))))
    IN  IF ~(Contains(T_verdict, line_stripped) /\ Contains(<<":">>, line_stripped)) THEN ""
        ELSE IF \/ Contains(T_needs_changes, after_colon)
                \/ Contains(T_needs_changes_underscore, after_colon)
                \/ Contains(T_needs_changes, line_stripped)
             THEN NEEDS_CHANGES
        ELSE IF Contains(T_lgtm, after_colon) THEN LGTM
        ELSE ""

\* the for loop: the first line that decides
RECURSIVE FirstLineVerdict(_)
FirstLineVerdict(ls) ==
    IF ls = <<>> THEN ""
    ELSE IF LineVerdict(Head(ls)) # "" THEN LineVerdict(Head(ls))
    ELSE FirstLineVerdict(Tail(ls))

\* the text around the first "needs changes" holds "verdict"
VerdictAnywhere(clean_lower, idx) == TRUE

VerdictNearby(clean_lower, idx) ==
    Contains(T_verdict, Slice(clean_lower, Max0(idx - WINDOW_BEFORE), idx + WINDOW_AFTER))

\* the looser full-text scan
FullTextVerdict(clean_lower) ==
    IF \/ Contains(T_needs_changes, clean_lower)
       \/ Contains(T_needs_changes_underscore, clean_lower)
    THEN LET idx == Find(T_needs_changes, clean_lower)
         IN  IF idx # -1 /\ VerdictNearby(clean_lower, idx) THEN NEEDS_CHANGES ELSE LGTM
    ELSE LGTM

parse_verdict(output) ==
    LET clean_output == CleanOutput(output)
        decided == FirstLineVerdict(SplitLines(clean_output))
    IN  IF decided # "" THEN decided ELSE FullTextVerdict(Lower(clean_output))

\* pieces a reviewer's output is put together from
TokVerdict == <<"V", "e", "r", "d", "i", "c", "t">>
TokColon == <<":">>
TokLgtm == <<" ", "*", "*", "L", "G", "T", "M", "*", "*">>
TokNeeds == <<" ", "N", "E", "E", "D", "S", "-", "C", "H", "A", "N", "G", "E", "S">>
TokNewline == <<"\n">>
TokPad == [i \in 1..(WINDOW_BEFORE + 1) |-> "x"]
OutputTokens == {TokVerdict, TokColon, TokLgtm, TokNeeds, TokNewline, TokPad}
MaxTokens == 3
ReviewOutputs ==
    {Join(<<>>, ts) : ts \in UNION {[1..n -> OutputTokens] : n \in 0..MaxTokens}}

\* what a reviewer run prints
TokNeedsPlain == <<" ", "N", "E", "E", "D", "S", " ", "C", "H", "A", "N", "G", "E", "S">>
ReviewerOutputs ==
    {<<>>, TokVerdict \o TokColon \o TokLgtm, <<">", " ">> \o TokVerdict \o TokColon \o TokNeeds,
     TokVerdict \o TokColon \o TokNeedsPlain}

VisualOk == <<"V", "I", "S", "U", "A", "L", ":", " ", "O", "K">>
VisualFiles == {None, <<" ", "\n">>, VisualOk \o <<"\n">>}

ParseVerdictCall ==
    /\ verdict = ""
    /\ vpc = "idle"
    /\ verdict' = parse_verdict(review_output)
    /\ UNCHANGED <<exceptReview, variant, review_output, vpc, iteration, visual_file,
                   verdict_reads, prompts, pr_comments, review_exit, pr_labels, review_log>>

(***************************************************************************)
(* self_review.main                                                        *)
(***************************************************************************)

MAX_REVIEW_ITERATIONS == 3

\* screenshot.read_visual_verdict: the stripped content of visual_verdict.txt, or None
read_visual_verdict(file) ==
    IF file = None THEN None
    ELSE IF Strip(file) # <<>> THEN Strip(file) ELSE None

VariantRalph == "ralph"
VariantScripts == "scripts"

\* src/ralph: `read_visual_verdict(SCREENSHOTS_DIR) if issue.is_frontend() else None`;
\* src/.github/scripts: `read_visual_verdict(SCREENSHOTS_DIR)`
ReadsVisual == variant = VariantScripts \/ is_frontend(issue)
GatedVerdict == IF ReadsVisual THEN read_visual_verdict(visual_file) ELSE None
GatedReads(n) == IF ReadsVisual THEN n + 1 ELSE n

\* parse_verdict of src/.github/scripts/self_review.py: the first line with "verdict:" that
\* names a verdict decides
NeedsChangesText == <<"n", "e", "e", "d", "s", " ", "c", "h", "a", "n", "g", "e", "s">>
NeedsChangesUnderscore == <<"n", "e", "e", "d", "s", "_", "c", "h", "a", "n", "g", "e", "s">>
VerdictColon == <<"v", "e", "r", "d", "i", "c", "t", ":">>
LgtmText == <<"l", "g", "t", "m">>

RECURSIVE FirstNamedVerdict(_)
FirstNamedVerdict(ls) ==
    IF ls = <<>> THEN LGTM
    ELSE LET line_stripped == Lower(Strip(Head(ls)))
         IN  IF Contains(VerdictColon, line_stripped)
                /\ (Contains(NeedsChangesText, line_stripped)
                    \/ Contains(NeedsChangesUnderscore, line_stripped))
             THEN NEEDS_CHANGES
             ELSE IF Contains(VerdictColon, line_stripped) /\ Contains(LgtmText, line_stripped)
             THEN LGTM
             ELSE FirstNamedVerdict(Tail(ls))

parse_verdict_scripts(output) == FirstNamedVerdict(SplitLines(output))

VerdictOf(output) ==
    IF variant = VariantScripts THEN parse_verdict_scripts(output) ELSE parse_verdict(output)

\* f"Review error: {e}"
ReviewErrorText == <<"R", "e", "v", "i", "e", "w", " ", "e", "r", "r", "o", "r", ":", " ">>

\* _safe_post_pr_comment of a review summary, with or without a "### Visual QA" section
PrComment(status, visual_verdict) == [status |-> status, visual |-> Truthy(visual_verdict)]

LabelPassed == "review-passed"
LabelNeedsAttention == "review-needs-attention"
StatusPassed == "PASSED"
StatusNeedsAttention == "NEEDS ATTENTION"

ReviewReturns ==
    /\ vpc' = "exit"
    /\ review_exit' = 0

ReviewFails ==
    /\ vpc' = "exit"
    /\ review_exit' = 1

\* The label, then the summary comment. src/ralph: _safe_label_pr and
\* _safe_post_pr_comment swallow every exception, but the comment's text is built first
\* and _build_cost_section can raise; src/.github/scripts: label_pr and post_pr_comment
\* raise GitError.
Conclude(label, status, visual_verdict) ==
    /\ pr_labels' = Append(pr_labels, label)
    /\ \/ /\ pr_comments' = Append(pr_comments, PrComment(status, visual_verdict))
          /\ ReviewReturns
       \/ /\ UNCHANGED pr_comments
          /\ ReviewFails
       \/ /\ variant = VariantScripts
          /\ pr_comments' = Append(pr_comments, PrComment(status, visual_verdict))
          /\ ReviewFails

\* 1. parse_issue (src/ralph: with the labels of ISSUE_LABELS), then PR_NUMBER, BRANCH and
\* the API key
ReviewValidate ==
    /\ vpc = "validate"
    /\ IF ~(EnvPresent(issue_args.number) /\ EnvPresent(issue_args.title)
            /\ EnvPresent(issue_args.body))
       THEN ReviewFails /\ UNCHANGED issue
       ELSE /\ issue' = parse_issue(Strip(issue_args.number), Strip(issue_args.title),
                                    Strip(issue_args.body),
                                    IF variant = VariantRalph THEN issue_args.labels ELSE <<>>)
            /\ IF issue'.kind # "Issue" THEN ReviewFails
               ELSE \/ vpc' = "review" /\ UNCHANGED review_exit
                    \/ ReviewFails
    /\ iteration' = 1
    /\ UNCHANGED <<beyondReview, issue_args, variant, review_output, verdict, visual_file,
                   verdict_reads, prompts, pr_comments, pr_labels, review_log>>

\* `if iteration < MAX_REVIEW_ITERATIONS:` before the fix round
MayFixAtLast(i) == i <= MAX_REVIEW_ITERATIONS

MayFix(i) == i < MAX_REVIEW_ITERATIONS

\* one review: the reviewer is constructed, the diff gathered, the prompt built with the
\* visual findings prepended, the reviewer run and its verdict parsed
ReviewIteration ==
    /\ vpc = "review"
    /\ \/ \* the ClineRunner constructor or get_diff raises
          /\ ReviewFails
          /\ UNCHANGED <<review_output, verdict, verdict_reads, prompts, pr_comments,
                         pr_labels, review_log>>
       \/ \* no diff: auto-approve
          /\ review_log' = Append(review_log, "no_diff")
          /\ Conclude(LabelPassed, StatusPassed, None)
          /\ UNCHANGED <<review_output, verdict, verdict_reads, prompts>>
       \/ \* the reviewer raises ClineError
          /\ prompts' = Append(prompts, Truthy(GatedVerdict))
          /\ review_log' = Append(review_log, "reviewer_error")
          /\ UNCHANGED verdict
          /\ IF variant = VariantRalph
             THEN \* auto-approve
                  /\ verdict_reads' = GatedReads(GatedReads(verdict_reads))
                  /\ Conclude(LabelPassed, StatusPassed, GatedVerdict)
                  /\ UNCHANGED review_output
             ELSE \* `break`
                  /\ verdict_reads' = GatedReads(verdict_reads)
                  /\ review_output' = ReviewErrorText
                  /\ vpc' = "exhausted"
                  /\ UNCHANGED <<pr_comments, pr_labels, review_exit>>
       \/ \* the reviewer raises another exception
          /\ prompts' = Append(prompts, Truthy(GatedVerdict))
          /\ review_log' = Append(review_log, "reviewer_raised")
          /\ verdict_reads' = GatedReads(verdict_reads)
          /\ ReviewFails
          /\ UNCHANGED <<review_output, verdict, pr_comments, pr_labels>>
       \/ \* the reviewer returns its output
          \E out \in ReviewerOutputs :
            /\ prompts' = Append(prompts, Truthy(GatedVerdict))
            /\ review_output' = out
            /\ verdict' = VerdictOf(out)
            /\ IF verdict' = LGTM
               THEN /\ review_log' = Append(review_log, "reviewer_lgtm")
                    /\ verdict_reads' = GatedReads(GatedReads(verdict_reads))
                    /\ Conclude(LabelPassed, StatusPassed, GatedVerdict)
               ELSE /\ review_log' = Append(review_log, "reviewer_needs_changes")
                    /\ verdict_reads' = GatedReads(verdict_reads)
                    /\ vpc' = IF MayFix(iteration) THEN "fix" ELSE "exhausted"
                    /\ UNCHANGED <<pr_comments, pr_labels, review_exit>>
    /\ UNCHANGED <<beyondReview, issueVars, variant, visual_file, iteration>>

\* the `for` statement takes the next iteration, or the loop is over
NextIteration ==
    IF iteration < MAX_REVIEW_ITERATIONS
    THEN vpc' = "review" /\ iteration' = iteration + 1
    ELSE vpc' = "exhausted" /\ UNCHANGED iteration

\* GitError of commit_and_push: src/ralph leaves the loop (`break`), src/.github/scripts
\* goes on with the next iteration (`continue`)
OnPushFailureContinue == NextIteration

OnPushFailure ==
    IF variant = VariantRalph
    THEN vpc' = "exhausted" /\ UNCHANGED iteration
    ELSE NextIteration

\* the fixer is constructed and run, the tests healed, the fix committed and pushed
ReviewFix ==
    /\ vpc = "fix"
    /\ \/ \* the ClineRunner constructor raises
          /\ ReviewFails
          /\ UNCHANGED <<iteration, review_log>>
       \/ \* the fixer ran (a ClineError is logged), and another exception leaves main
          /\ review_log' = Append(review_log, "fixer")
          /\ ReviewFails
          /\ UNCHANGED iteration
       \/ \* the fixer ran and commit_and_push returned
          /\ review_log' = review_log \o <<"fixer", "pushed">>
          /\ NextIteration
          /\ UNCHANGED review_exit
       \/ \* the fixer ran and commit_and_push raised GitError
          /\ review_log' = review_log \o <<"fixer", "push_failed">>
          /\ OnPushFailure
          /\ UNCHANGED review_exit
    /\ UNCHANGED <<beyondReview, issueVars, variant, review_output, verdict, visual_file,
                   verdict_reads, prompts, pr_comments, pr_labels>>

\* a final review that posts its comment and puts no label
ReviewExhaustedUnlabelled ==
    /\ vpc = "exhausted"
    /\ verdict_reads' = GatedReads(verdict_reads)
    /\ pr_comments' = Append(pr_comments, PrComment(StatusNeedsAttention, GatedVerdict))
    /\ ReviewReturns
    /\ UNCHANGED <<beyondReview, issueVars, variant, review_output, verdict, visual_file,
                   prompts, iteration, pr_labels, review_log>>

\* 3. the final review is posted
ReviewExhausted ==
    /\ vpc = "exhausted"
    /\ verdict_reads' = GatedReads(verdict_reads)
    /\ Conclude(LabelNeedsAttention, StatusNeedsAttention, GatedVerdict)
    /\ UNCHANGED <<beyondReview, issueVars, variant, review_output, verdict, visual_file,
                   prompts, iteration, review_log>>

ReviewMain ==
    \/ ReviewValidate \/ ReviewIteration \/ ReviewFix \/ ReviewExhausted

\* main of this variant has been started with this visual_verdict.txt in the screenshots
\* directory
ReviewCalled(v, file) ==
    /\ variant = v
    /\ vpc = "validate"
    /\ review_output = <<>> /\ verdict = ""
    /\ iteration = 0
    /\ visual_file = file
    /\ verdict_reads = 0
    /\ prompts = <<>>
    /\ pr_comments = <<>>
    /\ pr_labels = <<>>
    /\ review_log = <<>>
    /\ review_exit = NOT_EXITED

\* parse_verdict is about to be applied to this text
VerdictCalled(out) ==
    /\ variant = VariantRalph
    /\ vpc = "idle"
    /\ review_output = out /\ verdict = ""
    /\ iteration = 0
    /\ visual_file = None
    /\ verdict_reads = 0
    /\ prompts = <<>>
    /\ pr_comments = <<>>
    /\ pr_labels = <<>>
    /\ review_log = <<>>
    /\ review_exit = NOT_EXITED

ReviewUnused == VerdictCalled(<<>>)

(***************************************************************************)
(* screenshot.take_screenshot                                              *)
(***************************************************************************)

ExpectedName == <<"b", "e", "f", "o", "r", "e", ".", "p", "n", "g">>
SwitchName == <<"s", "w", "i", "t", "c", "h", ".", "p", "n", "g">>
OldName == <<"o", "l", "d", ".", "p", "n", "g">>
NotesName == <<"n", "o", "t", "e", "s", ".", "t", "x", "t">>
PngSuffix == <<".", "p", "n", "g">>
FileNames == {ExpectedName, SwitchName, OldName, NotesName}

\* a directory entry: absent, or a file with its modification time and size
NoFile == [exists |-> FALSE, mtime |-> 0, size |-> 0]
File(t, n) == [exists |-> TRUE, mtime |-> t, size |-> n]

\* times: the invocation, files from earlier runs, the agent's writes
INVOKED_AT == 2
OLD_TIME == INVOKED_AT - 1
WriteTimes == {INVOKED_AT + 1, INVOKED_AT + 2}
FileSizes == {0, 9}

\* parent.glob("*.png")
EndsWith(suffix, s) ==
    Len(s) >= Len(suffix) /\ SubSeq(s, Len(s) - Len(suffix) + 1, Len(s)) = suffix
Glob(d) == {f \in FileNames : d[f].exists /\ EndsWith(PngSuffix, f)}

\* the names sorted(.., key=mtime) can put first
OldestFirst(d) == {f \in Glob(d) : \A g \in Glob(d) : d[g].mtime >= d[f].mtime}

\* the names sorted(.., key=mtime, reverse=True) can put first
NewestFirst(d) == {f \in Glob(d) : \A g \in Glob(d) : d[g].mtime <= d[f].mtime}

\* the size check on the file at the expected path: an empty file is no
\* screenshot
ValidatedAnySize(f) == ExpectedName

Validated(f) == IF f.size = 0 THEN None ELSE ExpectedName

\* cline_runner.run(prompt): the agent raises, or returns having written some files
ShotRun ==
    /\ spc = "run"
    /\ \/ /\ shot_result' = None
          /\ spc' = "failed"
          /\ UNCHANGED <<shot_dir, dir_at_return>>
       \/ \E written \in SUBSET FileNames :
          \E w \in [written -> [mtime : WriteTimes, size : FileSizes]] :
            /\ shot_dir' = [f \in FileNames |->
                                IF f \in written THEN File(w[f].mtime, w[f].size)
                                ELSE shot_dir[f]]
            /\ dir_at_return' = shot_dir'
            /\ spc' = "validate"
            /\ UNCHANGED shot_result
    /\ UNCHANGED exceptShot

\* the validation after the agent returned
ShotValidate ==
    /\ spc = "validate"
    /\ spc' = "returned"
    /\ IF ~shot_dir[ExpectedName].exists
       THEN IF Glob(shot_dir) # {}
            THEN \E best \in NewestFirst(shot_dir) :
                    /\ shot_dir' = [shot_dir EXCEPT ![ExpectedName] = shot_dir[best],
                                                    ![best] = NoFile]
                    /\ shot_result' = Validated(shot_dir[best])
            ELSE shot_result' = None /\ UNCHANGED shot_dir
       ELSE /\ shot_result' = Validated(shot_dir[ExpectedName])
            /\ UNCHANGED shot_dir
    /\ UNCHANGED <<exceptShot, dir_at_return>>

take_screenshot == ShotRun \/ ShotValidate

\* take_screenshot has been called on a directory holding these files
ShotCalled(d) ==
    /\ spc = "run"
    /\ shot_dir = d
    /\ dir_at_return = d
    /\ shot_result = <<>>

EmptyShotDir == [f \in FileNames |-> NoFile]
ShotUnused == ShotCalled(EmptyShotDir)

(***************************************************************************)
(* self_review.self_heal_loop                                              *)
(***************************************************************************)

\* the largest max_attempts
MaxHeal == 4

\* `for attempt in range(1, max_attempts + 1)`: the loop takes this attempt, or is over and
\* `return False` follows
HealLoop(a) ==
    IF a <= max_attempts
    THEN heal_attempt' = a /\ hpc' = "test" /\ UNCHANGED heal_result
    ELSE heal_result' = "False" /\ hpc' = "done" /\ UNCHANGED heal_attempt

HealStart ==
    /\ hpc = "start"
    /\ HealLoop(1)
    /\ UNCHANGED <<exceptHeal, max_attempts, heal_log>>

\* a fixer run after every failed test run, the last one too
MayHealAtLast(a, n) == a <= n

\* `if attempt < max_attempts:`
MayHeal(a, n) == a < n

\* run_tests(), `if success: return True`, and the test that decides on a fixer run
HealTest ==
    /\ hpc = "test"
    /\ \/ /\ heal_log' = Append(heal_log, "tests_passed")
          /\ heal_result' = "True"
          /\ hpc' = "done"
          /\ UNCHANGED heal_attempt
       \/ /\ heal_log' = Append(heal_log, "tests_failed")
          /\ IF MayHeal(heal_attempt, max_attempts)
             THEN hpc' = "fix" /\ UNCHANGED <<heal_attempt, heal_result>>
             ELSE HealLoop(heal_attempt + 1)
       \/ \* subprocess.run raises TimeoutExpired
          /\ heal_log' = Append(heal_log, "tests_raised")
          /\ heal_result' = "raised"
          /\ hpc' = "done"
          /\ UNCHANGED heal_attempt
    /\ UNCHANGED <<exceptHeal, max_attempts>>

\* fixer.run(heal_prompt, ..): a ClineError is logged, another exception leaves the loop
HealFix ==
    /\ hpc = "fix"
    /\ \/ /\ \E e \in {"fixer", "fixer_ClineError"} : heal_log' = Append(heal_log, e)
          /\ HealLoop(heal_attempt + 1)
       \/ /\ heal_log' = Append(heal_log, "fixer_raised")
          /\ heal_result' = "raised"
          /\ hpc' = "done"
          /\ UNCHANGED heal_attempt
    /\ UNCHANGED <<exceptHeal, max_attempts>>

self_heal_loop == HealStart \/ HealTest \/ HealFix

\* self_heal_loop has been called with this max_attempts
HealCalled(n) ==
    /\ hpc = "start"
    /\ max_attempts = n
    /\ heal_attempt = 0
    /\ heal_log = <<>>
    /\ heal_result = "none"

HealUnused == HealCalled(0)

(***************************************************************************)
(* prompt_utils.load_prompt_template                                       *)
(***************************************************************************)

\* f"{{{{{key}}}}}": the key between two pairs of braces
Placeholder(key) == <<"{", "{">> \o key \o <<"}", "}">>

\* a keyword value: text, or a number that str() spells
TextValue(t) == [kind |-> "str", text |-> t, val |-> 0]
IntValue(n) == [kind |-> "int", text |-> <<>>, val |-> n]

\* str(value)
StrOf(v) == IF v.kind = "int" THEN IntToStr(v.val) ELSE v.text

StartsWith(prefix, s) == Len(s) >= Len(prefix) /\ SubSeq(s, 1, Len(prefix)) = prefix

\* content.replace(old, new): every occurrence of old, found from left to right without
\* overlap, is replaced; the inserted text is not searched
RECURSIVE Replace(_, _, _)
Replace(s, old, new) ==
    IF s = <<>> THEN <<>>
    ELSE IF StartsWith(old, s)
         THEN new \o Replace(SubSeq(s, Len(old) + 1, Len(s)), old, new)
         ELSE <<Head(s)>> \o Replace(Tail(s), old, new)

\* `for key, value in kwargs.items(): content = content.replace(..)`
RECURSIVE SubstituteAll(_, _)
SubstituteAll(content, kw) ==
    IF kw = <<>> THEN content
    ELSE SubstituteAll(Replace(content, Placeholder(Head(kw).key), StrOf(Head(kw).value)),
                       Tail(kw))

NoTemplate == <<"None">>
NotRendered == [kind |-> "none", text |-> <<>>]
Rendered(t) == [kind |-> "returned", text |-> t]
TemplateMissing == [kind |-> "FileNotFoundError", text |-> <<>>]

load_prompt_template ==
    /\ tpc = "call"
    /\ rendered' = IF template = NoTemplate THEN TemplateMissing
                   ELSE Rendered(SubstituteAll(template, kwargs))
    /\ tpc' = "returned"
    /\ UNCHANGED <<exceptTemplate, template, kwargs>>

\* load_prompt_template has been called on this template with these keyword arguments
TemplateCalled(t, kw) ==
    /\ tpc = "call"
    /\ template = t
    /\ kwargs = kw
    /\ rendered = NotRendered

\* nothing is being rendered
TemplateUnused ==
    /\ tpc = "idle"
    /\ template = NoTemplate
    /\ kwargs = <<>>
    /\ rendered = NotRendered

(***************************************************************************)
(* Initial states and specifications                                       *)
(***************************************************************************)

EnvOf(key) == [k \in EnvKeys |-> IF k = "OPENROUTER_API_KEY" THEN key ELSE None]

\* no constructor is running, and at most one has completed
CtorIdle == cpc = "idle" /\ self = NoObject /\ prev_model = None

\* run has been called with these arguments and has executed nothing yet
RunCalled(p, t, c, ps, q) ==
    /\ prompt = p /\ timeout = t /\ cwd = c
    /\ poll_seconds = ps
    /\ quota = [s \in Streams |-> q]
    /\ pc = "validate"
    /\ cmd = <<>>
    /\ env = [k \in EnvKeys |-> None]
    /\ popen_calls = <<>>
    /\ proc = NoProc
    /\ pipe = [s \in Streams |-> <<>>]
    /\ wrote = [s \in Streams |-> <<>>]
    /\ rpc = [s \in Streams |-> "unstarted"]
    /\ lines = [s \in Streams |-> <<>>]
    /\ stuck_reason = None /\ lock = "free" /\ reason = None
    /\ clock = 0 /\ now = -1 /\ deadline = 0 /\ check_count = 0
    /\ last_usage = UsageNone /\ run_baseline = UsageNone
    /\ probe_calls = 0
    /\ outcome = NoOutcome

\* create_branch has been called by each run
BranchCalled ==
    /\ bpc = [r \in Runs |-> "start"]
    /\ unique_name = [r \in Runs |-> <<>>]
    /\ version = [r \in Runs |-> 0]
    /\ local = [r \in Runs |-> {}]
    /\ checked = [r \in Runs |-> <<>>]
    /\ branch_result = [r \in Runs |-> NoBranchResult]

\* the part of the state a specification does not exercise
NoBranches ==
    /\ remote = {}
    /\ name = [r \in Runs |-> BranchBase]
    /\ BranchCalled

RunUnused ==
    /\ RunCalled(None, 0, None, SLEEP_SECONDS, 0)

\* nothing but ClineRunner and create_branch is in use
OthersIdle ==
    /\ PushUnused /\ IssueUnused /\ AgentUnused /\ ReviewUnused /\ ShotUnused
    /\ HealUnused /\ TemplateUnused

\* ClineRunner and create_branch are not in use
CliUnused ==
    /\ environ = EnvOf(None)
    /\ cline_on_path = TRUE
    /\ mcp_source = None
    /\ runner = NoObject
    /\ fs = EmptyDir
    /\ CtorIdle /\ ctor_outcome = "none"
    /\ RunUnused
    /\ NoBranches

PromptFix == <<"F", "i", "x">>
RunTimeout == 1

\* Spec: one run of ClineRunner.run on a constructed runner, with the process, the two
\* reader threads and the watchdog loop interleaved.
\* A run is followed either with a poll every second and a process that writes nothing
\* (so that the 30th iteration and its heartbeat are reached), or with slow polls and a
\* process that writes up to MaxLines lines to each stream.
SlowPoll == 15
Scenarios ==
    {[poll_seconds |-> SLEEP_SECONDS, quota |-> 0], [poll_seconds |-> SlowPoll, quota |-> MaxLines]}

Init ==
    /\ environ = EnvOf(KeyOne)
    /\ cline_on_path = TRUE
    /\ mcp_source = None
    /\ runner = RunnerFields(DirPlain, ModelA, None, None, NonePermissions)
    /\ fs = SetupClineDir(EmptyDir, runner, environ, mcp_source)
    /\ CtorIdle /\ ctor_outcome = "ok"
    /\ \E sc \in Scenarios : RunCalled(PromptFix, RunTimeout, None, sc.poll_seconds, sc.quota)
    /\ NoBranches
    /\ OthersIdle

MainThread ==
    \/ Validate \/ BuildCmd \/ BuildEnv \/ Popen \/ StartThreads \/ Baseline \/ SetDeadline
    \/ Poll \/ TimeoutKill \/ TimeoutWait \/ AcquireLock \/ ReadReason \/ StuckKill
    \/ StuckWait \/ Heartbeat \/ Sleep \/ JoinOut \/ JoinErr \/ Finish

Next ==
    \/ MainThread
    \/ ProcExit
    \/ \E s \in Streams : ProcWrite(s)
    \/ \E s \in Streams : Reader(s)

Spec == Init /\ [][Next]_vars

\* a run of an environment without an API key: every usage probe is None
FairInit ==
    /\ environ = EnvOf(None)
    /\ cline_on_path = TRUE
    /\ mcp_source = None
    /\ runner = RunnerFields(DirPlain, ModelA, None, None, NonePermissions)
    /\ fs = SetupClineDir(EmptyDir, runner, environ, mcp_source)
    /\ CtorIdle /\ ctor_outcome = "ok"
    /\ \E sc \in Scenarios : RunCalled(PromptFix, RunTimeout, None, sc.poll_seconds, sc.quota)
    /\ NoBranches
    /\ OthersIdle

\* The calling thread is scheduled whenever it can take a step: its waits are
\* bounded (sleep(1), join(timeout=5), urlopen(timeout=10), wait() after
\* SIGKILL). A reader inside `with lock:` executes one assignment and leaves
\* the block. Nothing is assumed about the process or about a reader that
\* waits for a line.
FairSpec ==
    /\ FairInit
    /\ [][Next]_vars
    /\ WF_vars(MainThread)
    /\ \A s \in Streams : WF_vars(ReaderWrite(s))

\* SpecLaunch: run from its call to the start of the watchdog loop, over the runners and
\* arguments it can be called with.
Prompts == {<<>>, <<" ">>, <<" ", "\t", "\n">>, PromptFix, <<" ">> \o PromptFix \o <<"\n">>}
Timeouts == {RunTimeout, 600}
WorkDir == <<"/", "w", "/">>
WorkDirs == {None, WorkDir}
CallerEnvs ==
    {[EnvOf(k) EXCEPT !["CLINE_DIR"] = d, !["HOME"] = <<"/", "h">>] :
        k \in {None, KeyOne}, d \in {None, <<"o", "l", "d">>}}

LaunchInit ==
    /\ environ \in CallerEnvs
    /\ cline_on_path = TRUE
    /\ mcp_source = None
    /\ \E d \in ClineDirs, m \in Models, p \in PlanModels, cp \in PermissionInputs :
        runner = RunnerFields(d, m, p, None, cp)
    /\ fs = SetupClineDir(EmptyDir, runner, environ, mcp_source)
    /\ CtorIdle /\ ctor_outcome = "ok"
    /\ \E p \in Prompts, t \in Timeouts, c \in WorkDirs : RunCalled(p, t, c, SLEEP_SECONDS, 0)
    /\ NoBranches
    /\ OthersIdle

LaunchNext == Validate \/ BuildCmd \/ BuildEnv \/ Popen \/ StartThreads \/ Baseline

SpecLaunch == LaunchInit /\ [][LaunchNext]_vars

\* SpecSetup: any sequence of ClineRunner constructions on one state directory, with the
\* environment changing between them.
SetupInit ==
    /\ environ \in {EnvOf(k) : k \in ApiKeys}
    /\ cline_on_path \in BOOLEAN
    /\ mcp_source \in McpContents
    /\ runner = NoObject
    /\ fs = EmptyDir
    /\ CtorIdle /\ ctor_outcome = "none"
    /\ RunUnused
    /\ NoBranches
    /\ OthersIdle

SetupNext ==
    \/ CtorCall \/ CtorWhich \/ SetupMkdir \/ SetupCopyMcp \/ SetupWriteGlobalState
    \/ SetupWriteSecrets \/ EnvChange

SpecSetup == SetupInit /\ [][SetupNext]_vars

\* SpecBranch: two workflow runs calling create_branch against one origin.
BranchInit_ ==
    /\ environ = EnvOf(None)
    /\ cline_on_path = TRUE
    /\ mcp_source = None
    /\ runner = NoObject
    /\ fs = EmptyDir
    /\ CtorIdle /\ ctor_outcome = "none"
    /\ RunUnused
    /\ name \in [Runs -> BranchInputs]
    /\ \E k \in RemotePrefixes : remote = {Candidate(BranchBase, i) : i \in 1..k}
    /\ BranchCalled
    /\ OthersIdle

BranchNext == \E r \in Runs : CreateBranch(r)

SpecBranch == BranchInit_ /\ [][BranchNext]_vars

\* SpecPush: one call of commit_and_push, over the messages, branches and work trees it
\* can be called with and the outcomes of its git commands.
PushInit ==
    /\ CliUnused
    /\ HealUnused /\ TemplateUnused
    /\ ShotUnused
    /\ IssueUnused /\ AgentUnused /\ ReviewUnused
    /\ \E m \in CommitMessages, b \in PushBranches, t \in SUBSET ChangedPaths :
        PushCalled(m, b, t)

PushNext == CommitAndPush

SpecPush == PushInit /\ [][PushNext]_vars

\* SpecIssue: parse_issue applied to the texts the workflow can pass.
IssueInit ==
    /\ CliUnused
    /\ HealUnused /\ TemplateUnused
    /\ ShotUnused
    /\ PushUnused /\ AgentUnused /\ ReviewUnused
    /\ issue_args \in [number : NumberTexts, title : FieldTexts, body : FieldTexts,
                        labels : LabelTexts]
    /\ issue = NoIssue

IssueNext == ParseIssueCall

SpecIssue == IssueInit /\ [][IssueNext]_vars

\* SpecAgent: one run of ralph_agent.main, over the environment it is started in and
\* the success or failure of each call it makes.
AgentNumbers == {<<"7">>, <<"a", "b", "c">>}
AgentInit ==
    /\ CliUnused
    /\ HealUnused /\ TemplateUnused
    /\ ShotUnused
    /\ PushUnused /\ ReviewUnused
    /\ issue_args \in [number : AgentNumbers, title : {<<"T">>}, body : {<<"T">>, <<>>},
                        labels : LabelTexts]
    /\ issue = NoIssue
    /\ \E k \in {None, KeyOne} : AgentCalled(k)

AgentNext == AgentMain

SpecAgent == AgentInit /\ [][AgentNext]_vars

\* SpecVerdict: parse_verdict applied to reviewer outputs of up to MaxTokens pieces.
VerdictInit ==
    /\ CliUnused
    /\ HealUnused /\ TemplateUnused
    /\ ShotUnused
    /\ PushUnused /\ IssueUnused /\ AgentUnused
    /\ \E out \in ReviewOutputs : VerdictCalled(out)

VerdictNext == ParseVerdictCall

SpecVerdict == VerdictInit /\ [][VerdictNext]_vars

\* SpecReview: one run of self_review.main, over the labels of the issue, the visual
\* verdict file and the outcome of each call it makes.
ReviewInit ==
    /\ CliUnused
    /\ HealUnused /\ TemplateUnused
    /\ ShotUnused
    /\ PushUnused /\ AgentUnused
    /\ issue_args \in [number : AgentNumbers, title : {<<"T">>}, body : {<<"T">>},
                        labels : LabelTexts]
    /\ issue = NoIssue
    /\ \E f \in VisualFiles : ReviewCalled(VariantRalph, f)

ReviewNext == ReviewMain

SpecReview == ReviewInit /\ [][ReviewNext]_vars

\* every step of main returns: the agent runs, git and gh calls and test runs are bounded
\* by their timeouts
FairReview == ReviewInit /\ [][ReviewNext]_vars /\ WF_vars(ReviewNext)

\* SpecScriptsReview: main of src/.github/scripts/self_review.py
ScriptsReviewInit ==
    /\ CliUnused
    /\ HealUnused /\ TemplateUnused
    /\ ShotUnused
    /\ PushUnused /\ AgentUnused
    /\ issue_args \in [number : AgentNumbers, title : {<<"T">>}, body : {<<"T">>},
                        labels : LabelTexts]
    /\ issue = NoIssue
    /\ \E f \in VisualFiles : ReviewCalled(VariantScripts, f)

SpecScriptsReview == ScriptsReviewInit /\ [][ReviewNext]_vars

\* SpecShot: one call of take_screenshot, over the files the directory holds before
\* the call and the files the agent writes.
ShotDirs ==
    {[f \in FileNames |-> IF f \in old THEN File(OLD_TIME, 9) ELSE NoFile] :
        old \in SUBSET {SwitchName, OldName, NotesName}}

ShotInit ==
    /\ CliUnused
    /\ HealUnused /\ TemplateUnused
    /\ PushUnused /\ IssueUnused /\ AgentUnused /\ ReviewUnused
    /\ \E d \in ShotDirs : ShotCalled(d)

ShotNext == take_screenshot

SpecShot == ShotInit /\ [][ShotNext]_vars

\* SpecHeal: self_heal_loop over its max_attempts, with test runs that pass or fail and
\* fixer runs that return or raise
HealInit ==
    /\ CliUnused
    /\ TemplateUnused
    /\ ShotUnused
    /\ PushUnused /\ IssueUnused /\ AgentUnused /\ ReviewUnused
    /\ \E n \in -1..MaxHeal : HealCalled(n)

HealNext == self_heal_loop

SpecHeal == HealInit /\ [][HealNext]_vars


\* SpecTemplate: load_prompt_template over templates and keyword arguments in every
\* order, with values that hold placeholders themselves
KeyA == <<"A">>
KeyB == <<"B">>
TemplateKeys == {KeyA, KeyB}
TemplateValues ==
    {TextValue(<<"x">>), TextValue(Placeholder(KeyA)), TextValue(Placeholder(KeyB)),
     IntValue(42)}
Templates ==
    {NoTemplate, <<"x">>,
     Placeholder(KeyA) \o <<"-">> \o Placeholder(KeyB),
     Placeholder(KeyA) \o Placeholder(KeyA),
     Placeholder(<<"C">>),
     <<"{">> \o Placeholder(KeyA) \o <<"}">>}
Kwarg(k, v) == [key |-> k, value |-> v]
KeywordArguments ==
    {<<>>}
    \cup {<<Kwarg(k, v)>> : k \in TemplateKeys, v \in TemplateValues}
    \cup {kw \in {<<Kwarg(k1, v1), Kwarg(k2, v2)>> :
                       k1 \in TemplateKeys, k2 \in TemplateKeys,
                       v1 \in TemplateValues, v2 \in TemplateValues} :
              kw[1].key # kw[2].key}

TemplateInit ==
    /\ CliUnused
    /\ HealUnused
    /\ ShotUnused
    /\ PushUnused /\ IssueUnused /\ AgentUnused /\ ReviewUnused
    /\ \E t \in Templates : \E kw \in KeywordArguments : TemplateCalled(t, kw)

TemplateNext == load_prompt_template

SpecTemplate == TemplateInit /\ [][TemplateNext]_vars

(***************************************************************************)
(* Properties                                                              *)
(***************************************************************************)

\* a line holds one of the stuck patterns, letter case aside
HasStuckPattern(line) ==
    \E i \in 1..Len(STUCK_PATTERNS) : Contains(Lower(STUCK_PATTERNS[i]), Lower(line))

\* the lines with a stuck pattern that the process has written
StuckLinesWritten ==
    {l \in UNION {{wrote[s][i] : i \in 1..Len(wrote[s])} : s \in Streams} : HasStuckPattern(l)}

IsStuckError(o) ==
    o.kind = "ClineError" /\ o.exit_code = -1 /\ StartsWith(MsgStuckPrefix, o.message)

IsTimeoutError(o) ==
    /\ o.kind = "ClineError" /\ o.exit_code = -1
    /\ o.message = MsgTimedOut \o IntToStr(timeout) \o MsgSeconds

DeadlineObserved == now # -1 /\ now >= deadline

C3_Original ==
    /\ (outcome.kind = "ClineResult" =>
            proc.state = "exited" /\ proc.returncode = 0 /\ outcome.exit_code = 0)
    /\ (pc = "done" /\ proc.state = "exited" /\ ~proc.killed /\ proc.returncode # 0
            /\ ~IsTimeoutError(outcome) /\ ~IsStuckError(outcome)
        => outcome = ClineError(MsgExited \o IntToStr(proc.returncode), Captured("stdout"),
                                Captured("stderr"), proc.returncode))
    /\ (pc = "done" /\ proc.killed => outcome.kind = "ClineError" /\ outcome.exit_code = -1)
    /\ (pc = "done" /\ popen_calls # <<>> /\ proc.state = "none"
        => outcome.kind = "ClineError" /\ outcome.exit_code = -1)

\* the prompt is empty or holds whitespace only
BlankPrompt == \A i \in 1..Len(prompt) : prompt[i] \in Whitespace

\* C4: run called with an empty or whitespace-only prompt raises ValueError and has
\* started no process, no reader thread and no usage probe.
C4_BlankPromptRejected ==
    BlankPrompt =>
        /\ pc \in {"validate", "done"}
        /\ popen_calls = <<>>
        /\ proc = NoProc
        /\ \A s \in Streams : rpc[s] = "unstarted"
        /\ probe_calls = 0
        /\ (pc = "done" => outcome.kind = "ValueError" /\ outcome.message = MsgEmptyPrompt)

\* run has raised ValueError for a prompt of blanks, tab and newline
C4_Witness ==
    /\ prompt = <<" ", "\t", "\n">>
    /\ pc = "done"
    /\ outcome.kind = "ValueError"
    /\ popen_calls = <<>>

\* C5: between constructions on one state directory, globalState.json holds the model and
\* the plan model of the latest ClineRunner constructed, whatever was constructed before.
C5_GlobalStateFollowsLatest ==
    (cpc = "idle" /\ runner # NoObject) =>
        /\ fs.data_dir
        /\ fs.global_state = [act |-> runner.model, plan |-> runner.plan_model]

\* a second construction with another model has completed and the file names its model
C5_Witness ==
    /\ cpc = "idle"
    /\ ctor_outcome = "ok"
    /\ prev_model = ModelA
    /\ runner.model = ModelB
    /\ runner.plan_model = ModelA
    /\ fs.global_state = [act |-> ModelB, plan |-> ModelA]

\* C6 as stated: when a construction completes, the descriptor copy and the secrets file in
\* the state directory are those of this construction: the descriptor content it was given
\* (none when it was given none) and the credential of the environment at that time (none
\* when there is none).
C6_Original ==
    [][(cpc = "write_secrets" /\ cpc' = "idle") =>
        /\ fs'.mcp_settings = (IF McpProvided(self, mcp_source) THEN mcp_source ELSE None)
        /\ fs'.secrets =
            (IF SecretsProvided(environ) THEN environ["OPENROUTER_API_KEY"] ELSE None)]_vars

\* C7: when cline is not on the PATH the constructor raises FileNotFoundError from its
\* check, with the state directory and the latest runner as they were; the steps of
\* _setup_cline_dir run only when cline resolves.
C7_MissingBinaryFailsFirst ==
    /\ [][(cpc = "which" /\ ~cline_on_path) =>
            /\ ctor_outcome' = "FileNotFoundError"
            /\ cpc' = "idle"
            /\ fs' = fs
            /\ runner' = runner]_vars
    /\ [](cpc \in {"mkdir", "copy_mcp", "write_state", "write_secrets"} => cline_on_path)
    /\ [](ctor_outcome = "FileNotFoundError" => ~cline_on_path \/ cpc = "idle")

\* the first construction failed for want of cline and there is no directory, no runner
C7_Witness ==
    /\ ctor_outcome = "FileNotFoundError"
    /\ ~cline_on_path
    /\ fs = EmptyDir
    /\ runner = NoObject

HasArg(c, a) == \E i \in 1..Len(c) : c[i] = a

\* C8: the command line run launches holds '-p' exactly when the runner's plan model
\* differs from its model (the plan model being the model when None or "" was given), holds
\* no '--model', and ends with the prompt.
C8_CommandLine ==
    /\ \A i \in 1..Len(popen_calls) :
        LET c == popen_calls[i].cmd
        IN  /\ HasArg(c, T_p) <=> (runner.plan_model # runner.model)
            /\ ~HasArg(c, <<"-", "-", "m", "o", "d", "e", "l">>)
            /\ c[Len(c)] = prompt
            /\ c = cmd
    /\ \A m \in Models, p \in PlanModels :
        RunnerFields(DirPlain, m, p, None, NonePermissions).plan_model =
            (IF p \in {None, <<>>} THEN m ELSE p)

\* a process was launched in plan mode for a runner whose plan model is another model
C8_Witness ==
    /\ popen_calls # <<>>
    /\ runner.model = ModelA /\ runner.plan_model = ModelB
    /\ HasArg(popen_calls[1].cmd, T_p)
    /\ cwd # None

OverriddenKeys == {"CLINE_DIR", "CLINE_COMMAND_PERMISSIONS"}

\* C9: the environment handed to the process is the caller's environment but for
\* CLINE_DIR, set to the runner's state directory, and CLINE_COMMAND_PERMISSIONS, set to the
\* JSON text of the runner's policy (the default policy when none was given); no step of
\* run changes the caller's environment.
C9_ChildEnvironment ==
    /\ [](\A i \in 1..Len(popen_calls) :
            LET e == popen_calls[i].env
            IN  /\ \A k \in EnvKeys \ OverriddenKeys : e[k] = environ[k]
                /\ e["CLINE_DIR"] = runner.cline_dir
                /\ e["CLINE_COMMAND_PERMISSIONS"] = JsonDumps(runner.command_permissions)
                /\ StartsWith(<<"{", "\"", "a", "l", "l", "o", "w", "\"", ":", " ", "[", "\"">>,
                              e["CLINE_COMMAND_PERMISSIONS"]))
    /\ [](RunnerFields(DirPlain, ModelA, None, None, NonePermissions).command_permissions
            = DEFAULT_COMMAND_PERMISSIONS)
    /\ [][environ' = environ]_vars

\* a process was launched by a caller whose environment names another state directory
C9_Witness ==
    /\ popen_calls # <<>>
    /\ environ["CLINE_DIR"] = <<"o", "l", "d">>
    /\ environ["CLINE_COMMAND_PERMISSIONS"] = None
    /\ popen_calls[1].env["CLINE_DIR"] = DirPlain
    /\ popen_calls[1].env["HOME"] = <<"/", "h">>
    /\ runner.command_permissions = READ_ONLY_PERMISSIONS

\* C10 as stated: two concurrent calls of create_branch for the same requested name never
\* both return the same branch name.
C10_Original ==
    (/\ \A r \in Runs : branch_result[r].kind = "returned"
     /\ Strip(name[1]) = Strip(name[2]))
        => branch_result[1].branch # branch_result[2].branch

\* the i-th name of the sequence X, X-v2, X-v3, ...
NthName(x, i) == IF i = 1 THEN x ELSE x \o <<"-", "v">> \o IntToStr(i)

\* C11: the names create_branch asks origin about are X, X-v2, X-v3, ... in this order,
\* each asked only after every earlier one was reported as existing; the name it returns
\* is the one name reported absent, the branch checked out in the clone is this name, and
\* no name reported as existing is checked out or returned.
C11_FirstFreeCandidate ==
    \A r \in Runs :
        LET log == checked[r]
            reported == {log[i].name : i \in {j \in 1..Len(log) : log[j].exists}}
        IN  /\ \A i \in 1..Len(log) : log[i].name = NthName(name[r], i)
            /\ \A i \in 1..(Len(log) - 1) : log[i].exists
            /\ local[r] \cap reported = {}
            /\ (branch_result[r].kind = "returned" =>
                    /\ log # <<>>
                    /\ ~log[Len(log)].exists
                    /\ branch_result[r].branch = log[Len(log)].name
                    /\ branch_result[r].branch \notin reported
                    /\ local[r] = {branch_result[r].branch})
            /\ (branch_result[r].kind # "returned" => local[r] = {})

\* origin held X and X-v2, and a call has returned X-v3 after asking about the three
C11_Witness ==
    /\ Len(checked[1]) = 3
    /\ branch_result[1] = Returned(NthName(BranchBase, 3))
    /\ local[1] = {NthName(BranchBase, 3)}
    /\ {BranchBase, NthName(BranchBase, 2)} \subseteq remote

\* C12 as stated: create_branch raises GitError for want of a free name only after 20
\* existence checks that all found the name on origin, and then has created no branch.
C12_Original ==
    \A r \in Runs :
        branch_result[r].kind = "GitError" =>
            /\ Len(checked[r]) = MAX_ATTEMPTS
            /\ \A i \in 1..Len(checked[r]) : checked[r][i].exists
            /\ local[r] = {}

\* the git commands of one commit_and_push call, by name
GitCalls(c) == {i \in 1..Len(git_log) : git_log[i].cmd = c}
\* the staged paths `git diff --cached --name-only` printed
StagedSeen == UNION {git_log[i].out : i \in {j \in GitCalls("diff") : git_log[j].ok}}
StagedStateFiles == {f \in StagedSeen : Contains(SecretsName, f) \/ Contains(StateName, f)}
LastGitCall == git_log[Len(git_log)]

\* C13: commit_and_push commits and pushes only when no staged path contains
\* 'secrets.json' or 'globalState.json' and `git status --porcelain` prints something.
\* With such a path staged it runs `git reset HEAD` on exactly those paths and raises
\* GitError; with nothing to commit it raises GitError; in both cases no commit and no
\* push is run.
C13_CommitGuard ==
    /\ (GitCalls("commit") \cup GitCalls("push") # {}) =>
            /\ \E d \in GitCalls("diff") : git_log[d].ok
            /\ StagedStateFiles = {}
            /\ \E s \in GitCalls("status") : git_log[s].ok /\ git_log[s].out # {}
    /\ (StagedStateFiles # {}) =>
            /\ GitCalls("status") \cup GitCalls("commit") \cup GitCalls("push") = {}
            /\ (kpc = "done" =>
                    /\ push_result.kind = "GitError"
                    /\ LastGitCall.cmd = "reset"
                    /\ LastGitCall.paths = StagedStateFiles
                    /\ (LastGitCall.ok => index \cap StagedStateFiles = {}))
    /\ (\E s \in GitCalls("status") : git_log[s].ok /\ git_log[s].out = {}) =>
            /\ GitCalls("commit") \cup GitCalls("push") = {}
            /\ kpc = "done"
            /\ push_result = PushRaised("GitError", "no changes")
    /\ (\A i \in GitCalls("push") : \E c \in GitCalls("commit") : c < i /\ git_log[c].ok)

C13_Witness ==
    /\ push_result = PushRaised("GitError", "secrets")
    /\ index = {PathCode, PathUpper}
    /\ tree = {PathSecrets, PathState}
    /\ Len(git_log) = 3

\* C14: commit_and_push pushes at most twice. The second push happens only after the
\* first one failed with 'non-fast-forward' or 'rejected' in its stderr and
\* `git pull --rebase` succeeded. Any other push failure raises GitError, and the call
\* returns normally only after a push succeeded.
C14_PushRetry ==
    /\ Cardinality(GitCalls("push")) <= 2
    /\ \A i \in GitCalls("pull") \cup {j \in GitCalls("push") : \E k \in GitCalls("push") : k < j} :
            LET first == IF git_log[i].cmd = "pull" THEN i - 1 ELSE i - 2
            IN  /\ first >= 1
                /\ git_log[first].cmd = "push" /\ ~git_log[first].ok
                /\ \E e \in git_log[first].out :
                        Contains(ErrNonFastForward, e) \/ Contains(ErrRejected, e)
                /\ git_log[i].cmd = "push" => git_log[i - 1].cmd = "pull" /\ git_log[i - 1].ok
    /\ (push_result.kind = "returned") =>
            git_log # <<>> /\ LastGitCall.cmd = "push" /\ LastGitCall.ok
    /\ \A i \in GitCalls("push") \cup GitCalls("pull") :
            (~git_log[i].ok /\ kpc = "done") =>
                \/ push_result.kind = "GitError" /\ i = Len(git_log)
                \/ git_log[i].cmd = "push" /\ i < Len(git_log) /\ git_log[i + 1].cmd = "pull"

C14_Witness ==
    /\ push_result = PushReturned
    /\ Cardinality(GitCalls("push")) = 2
    /\ \E i \in GitCalls("push") : git_log[i].out = {StderrRejected}

MaxNumber == 12

\* a text spells the integer n the way int() reads it: an optional plus sign, leading
\* zeros and single underscores between digits aside, it is str(n)
Spells(s, n) ==
    LET d == IF s # <<>> /\ Head(s) = "+" THEN Tail(s) ELSE s
        plain == SelectSeq(d, LAMBDA c : c # "_")
        zeros == CHOOSE k \in 0..Len(plain) :
                    /\ \A i \in 1..k : plain[i] = "0"
                    /\ (k < Len(plain) => plain[k + 1] # "0")
        lead == IF zeros = Len(plain) THEN zeros - 1 ELSE zeros
    IN  /\ d # <<>> /\ d[1] # "_" /\ d[Len(d)] # "_"
        /\ \A i \in 1..(Len(d) - 1) : ~(d[i] = "_" /\ d[i + 1] = "_")
        /\ plain # <<>>
        /\ SubSeq(plain, lead + 1, Len(plain)) = NatToStr(n)

PositiveNumber(text) == text # None /\ \E n \in 1..MaxNumber : Spells(Strip(text), n)
Filled(text) == text # None /\ Strip(text) # <<>>

\* C19: parse_issue returns an Issue exactly when the number, trimmed, parses to an
\* integer greater than 0 and title and body are non-empty after trimming; the record
\* holds that integer and the trimmed title and body. Otherwise it raises ValueError,
\* for the number first, then the title, then the body.
C19_IssueValidation ==
    issue # NoIssue =>
        IF ~PositiveNumber(issue_args.number)
        THEN issue.kind = "ValueError" /\ issue.why \notin {"title", "body"}
        ELSE IF ~Filled(issue_args.title) THEN issue = IssueError("title")
        ELSE IF ~Filled(issue_args.body) THEN issue = IssueError("body")
        ELSE /\ issue.kind = "Issue"
             /\ issue.number > 0 /\ Spells(Strip(issue_args.number), issue.number)
             /\ issue.title = Strip(issue_args.title)
             /\ issue.body = Strip(issue_args.body)

C19_Witness ==
    /\ issue.kind = "Issue"
    /\ issue.number = 12
    /\ issue_args.number # NatToStr(12)
    /\ issue.title # issue_args.title

\* the issue carries the 'frontend' label
LabelledFrontend ==
    \E part \in {Split(issue_args.labels, ",")[i] : i \in 1..Len(Split(issue_args.labels, ","))} :
        Lower(Strip(part)) = T_frontend

\* C15: every run of ralph_agent.main that fails after the issue was validated has
\* posted a 'failed' comment on the issue before the process exits with code 1.
C15_Original ==
    (exit_code = 1 /\ issue.kind = "Issue") =>
        \E i \in 1..Len(comments) : comments[i] = "failed"

\* C16: for an issue without the 'frontend' label, ralph_agent.main never starts the
\* backend server and never attempts a before or after screenshot.
C16_Original ==
    ~LabelledFrontend => server_starts = 0 /\ shots = <<>>

\* the reviewer's output as parse_verdict looks at it: lower case, the markdown
\* characters * _ ` > # - read as blanks, one text per line
PlainLines ==
    LET plain == [i \in 1..Len(review_output) |->
                    IF review_output[i] \in {"*", "_", GraveAccent, ">", "#", "-"} THEN " "
                    ELSE LowerChar(review_output[i])]
    IN  Split(plain, "\n")
\* positions at which a word starts in a text
Starts(word, text) ==
    {i \in 1..(Len(text) - Len(word) + 1) : \A k \in 1..Len(word) : text[i + k - 1] = word[k]}
\* the text after the first colon of a line
AfterColon(line) ==
    LET c == CHOOSE i \in 1..Len(line) : line[i] = ":" /\ \A j \in 1..(i - 1) : line[j] # ":"
    IN  SubSeq(line, c + 1, Len(line))
LineNamesNeedsChanges(line) ==
    Starts(T_verdict, line) # {} /\ Starts(<<":">>, line) # {} /\ Starts(T_needs_changes, line) # {}
LineNamesLgtm(line) ==
    /\ Starts(T_verdict, line) # {} /\ Starts(<<":">>, line) # {}
    /\ Starts(T_lgtm, AfterColon(line)) # {}
LineDecides(line) == LineNamesNeedsChanges(line) \/ LineNamesLgtm(line)
\* somewhere in the whole text 'needs changes' starts within 100 characters of 'verdict'
NeedsChangesNearVerdict ==
    LET text == Join(<<"\n">>, PlainLines)
    IN  \E i \in Starts(T_needs_changes, text), j \in Starts(T_verdict, text) :
            i - j <= 100 /\ j - i <= 100

\* C18: parse_verdict returns only 'LGTM' or 'NEEDS CHANGES'. Ignoring case and the
\* markdown characters, the first line that contains 'verdict', a colon and a recognised
\* verdict decides: NEEDS CHANGES if that line names 'needs changes', otherwise LGTM if
\* 'lgtm' follows the colon. When no line decides and the text has no 'needs changes'
\* within 100 characters of 'verdict', the result is 'LGTM'.
C18_VerdictParsing ==
    verdict # "" =>
        /\ verdict \in {"LGTM", "NEEDS CHANGES"}
        /\ \A k \in 1..Len(PlainLines) :
                (LineDecides(PlainLines[k]) /\ \A j \in 1..(k - 1) : ~LineDecides(PlainLines[j]))
                    => verdict = IF LineNamesNeedsChanges(PlainLines[k]) THEN "NEEDS CHANGES"
                                 ELSE "LGTM"
        /\ ((\A k \in 1..Len(PlainLines) : ~LineDecides(PlainLines[k]))
                /\ ~NeedsChangesNearVerdict) => verdict = "LGTM"

C18_Witness ==
    /\ verdict = "LGTM"
    /\ review_output = TokNeeds \o TokPad \o TokVerdict

\* C17: self_review.main reads the visual verdict, injects it into the review prompt and
\* appends it to PR comments only when the issue's label string, split on commas with
\* each label trimmed and lower-cased, contains 'frontend'; for every other label string
\* read_visual_verdict is never called and no visual section appears.
C17_VisualGate ==
    ~LabelledFrontend =>
        /\ verdict_reads = 0
        /\ \A i \in 1..Len(prompts) : ~prompts[i]
        /\ \A i \in 1..Len(pr_comments) : ~pr_comments[i].visual

C17_Witness ==
    /\ review_exit = 0
    /\ issue_args.labels \in LabelTexts \ {<<>>} /\ ~LabelledFrontend
    /\ Contains(T_frontend, issue_args.labels)
    /\ visual_file = VisualOk \o <<"\n">>
    /\ Len(prompts) = MAX_REVIEW_ITERATIONS
    /\ Len(pr_comments) = 1

\* the PNG files the agent left in the directory, and those written after the invocation
PngsAtReturn ==
    {f \in FileNames : dir_at_return[f].exists /\ Len(f) > 4
        /\ SubSeq(f, Len(f) - 3, Len(f)) = <<".", "p", "n", "g">>}
NewerPngs == {f \in PngsAtReturn : dir_at_return[f].mtime > INVOKED_AT}

\* C20: take_screenshot, when the agent call succeeded and no file exists at the
\* expected path: with exactly one PNG newer than the invocation in the directory it
\* renames that PNG to the expected path, the file no longer exists under its old name,
\* and it returns the expected path when the file is not empty and None when it is
\* empty; with no PNG at all it returns None and creates no file.
C20_Recovery ==
    (spc = "returned" /\ ~dir_at_return[ExpectedName].exists) =>
        /\ \A f \in NewerPngs :
                NewerPngs = {f} =>
                    /\ shot_dir[ExpectedName] = dir_at_return[f]
                    /\ ~shot_dir[f].exists
                    /\ \A g \in FileNames \ {f, ExpectedName} : shot_dir[g] = dir_at_return[g]
                    /\ shot_result = IF dir_at_return[f].size > 0 THEN ExpectedName ELSE None
        /\ (PngsAtReturn = {}) => (shot_result = None /\ shot_dir = dir_at_return)

C20_Witness ==
    /\ spc = "returned"
    /\ shot_result = ExpectedName
    /\ ~dir_at_return[ExpectedName].exists
    /\ dir_at_return[OldName].exists /\ dir_at_return[OldName].mtime < INVOKED_AT
    /\ dir_at_return[SwitchName].mtime > INVOKED_AT /\ dir_at_return[SwitchName].size > 0
    /\ ~shot_dir[SwitchName].exists

\* C20 as stated: the expected path is returned whenever exactly one newer PNG exists.
C20_Original ==
    (spc = "returned" /\ ~dir_at_return[ExpectedName].exists) =>
        /\ \A f \in NewerPngs :
                NewerPngs = {f} =>
                    /\ shot_dir[ExpectedName] = dir_at_return[f]
                    /\ ~shot_dir[f].exists
                    /\ shot_result = ExpectedName
        /\ (PngsAtReturn = {}) => (shot_result = None /\ shot_dir = dir_at_return)

\* C21: take_screenshot does not raise when the agent invocation fails, it
\* returns None; a path it returns is the expected output path, where a file
\* of more than 0 bytes exists; a 0-byte file at the expected path after the
\* agent returned gives None.
C21_ScreenshotResult ==
    /\ spc = "failed" => shot_result = None
    /\ spc \in {"failed", "returned"} =>
          \/ shot_result = None
          \/ /\ shot_result = ExpectedName
             /\ shot_dir[ExpectedName].exists
             /\ shot_dir[ExpectedName].size > 0
    /\ ( /\ spc = "returned"
         /\ dir_at_return[ExpectedName].exists
         /\ dir_at_return[ExpectedName].size = 0 ) => shot_result = None

\* the agent wrote a 0-byte file to the expected path and None came back
C21_Witness ==
    /\ spc = "returned"
    /\ dir_at_return[ExpectedName].exists
    /\ dir_at_return[ExpectedName].size = 0
    /\ shot_result = None

\* C22: during one run the shared stuck reason is written at most once: once
\* a reader has recorded a reason, no later step changes it, so the reason of
\* the first writer is the one the watchdog reports.
C22_Original == [][Truthy(stuck_reason) => stuck_reason' = stuck_reason]_vars

\* C23: the line buffers of stdout and stderr are read only after the reader
\* thread that owns them has finished: when run has built its result or its
\* ClineError from the buffers of a started process, both readers are done.
C23_Original ==
    ( /\ RunOver
      /\ proc.state # "none"
      /\ outcome.kind \in {"ClineResult", "ClineError"} )
    => \A s \in Streams : rpc[s] = "done"

C25_Original ==
    /\ ( /\ RunOver
         /\ outcome.kind = "ClineError"
         /\ \/ Contains(MsgTimedOut, outcome.message)
            \/ Contains(MsgStuckPrefix, outcome.message) )
       => proc.state = "exited" /\ proc.waited
    /\ (RunOver /\ proc.state # "none") => proc.state = "exited"

\* the part of C25 about the results and the ClineErrors of run alone
C25_AfterClineError ==
    ( /\ RunOver
      /\ proc.state # "none"
      /\ outcome.kind \in {"ClineResult", "ClineError"} )
    => proc.state = "exited"

\* C26: every run with a valid prompt eventually returns or raises, whatever
\* the process and the readers do, and the watchdog never starts another
\* sleep once it has read a clock value at or after the deadline.
C26_Terminates ==
    /\ <>RunOver
    /\ [](pc \in {"lock", "read_reason", "heartbeat", "sleep"} => now < deadline)

\* run ended by the deadline although the process never exited by itself and
\* a reader never reached the end of its stream
C26_Witness ==
    /\ RunOver
    /\ proc.killed
    /\ Contains(MsgTimedOut, outcome.message)
    /\ \E s \in Streams : rpc[s] = "iter"

IsPrefix(a, b) == Len(a) <= Len(b) /\ a = SubSeq(b, 1, Len(a))

\* the reader of the stream left its loop at the end of the stream
ReachedEof(s) == rpc[s] = "done" /\ \A i \in 1..Len(lines[s]) : ~IsStuckLine(lines[s][i])

\* run is over with a result or an error that carries the captured text of
\* a started process
CapturedReported ==
    /\ RunOver
    /\ proc.state # "none"
    /\ outcome.kind \in {"ClineResult", "ClineError"}

\* run is over with the outcome of a process that exited by itself
ExitedByItself ==
    /\ CapturedReported
    /\ ~proc.killed
    /\ outcome.exit_code = proc.returncode

C28_LockDiscipline ==
    /\ [](/\ lock \in {"free", "main"} \cup Streams
          /\ (lock = "main") = (pc = "read_reason")
          /\ \A s \in Streams : (lock = s) = (rpc[s] = "write")
          /\ lock = "main" => ENABLED ReadReason
          /\ \A s \in Streams : (lock = s /\ ~RunOver) => ENABLED ReaderWrite(s))
    /\ [][ /\ stuck_reason' # stuck_reason => lock \in Streams /\ lock' = "free"
           /\ (pc = "read_reason" /\ pc' # pc) =>
                 lock = "main" /\ lock' = "free" /\ reason' = stuck_reason
           /\ reason' # reason => lock = "main" ]_vars

\* a reader holds the lock while the other reader and the calling thread
\* wait for it
C28_Witness ==
    /\ lock = "stdout"
    /\ rpc["stderr"] = "lock"
    /\ pc = "lock"

\* C29: no exception that comes from a usage probe or from the heartbeat
\* reaches the caller of run: once the process was started, run ends with a
\* result or with a ClineError, whatever the probes answered.
C29_Original ==
    (RunOver /\ proc.state # "none") => outcome.kind \in {"ClineResult", "ClineError"}

\* C30: the usage baseline is sampled before the external process is
\* launched, and the final usage after the process has exited: no process
\* exists while no probe has been made, and the calling thread samples the
\* final usage of an exited process only.
C30_Original ==
    /\ proc.state # "none" => probe_calls >= 1
    /\ pc = "finish" => proc.state = "exited"

\* C39: when the expected file is missing after the agent returned, the
\* recovery renames a PNG only if it is the single PNG of the directory and
\* was written after the invocation started; a PNG left by an earlier run is
\* never renamed, and nothing is renamed when there are several candidates.
C39_Original ==
    ( /\ spc = "returned"
      /\ ~dir_at_return[ExpectedName].exists
      /\ shot_dir[ExpectedName].exists )
    => \E f \in PngsAtReturn :
          /\ PngsAtReturn = {f}
          /\ dir_at_return[f].mtime > INVOKED_AT

HealTestEvents == {"tests_passed", "tests_failed", "tests_raised"}
HealFixerEvents == {"fixer", "fixer_ClineError", "fixer_raised"}

\* how many of the first k entries of a log are among these events
EventsUpTo(log, k, events) == Cardinality({i \in 1..k : log[i] \in events})

\* C35: self_heal_loop(fixer, issue, n) runs the test suite at most n times and the
\* fixer at most n - 1 times, returns True exactly when some test run succeeded (stopping
\* at the first success), never invokes the fixer after the last test run, continues to
\* the next attempt when the fixer raises ClineError, and returns False without running
\* anything when n is 0.
C35_SelfHeal ==
    LET n == IF max_attempts > 0 THEN max_attempts ELSE 0
        len == Len(heal_log)
    IN  /\ EventsUpTo(heal_log, len, HealTestEvents) <= n
        /\ EventsUpTo(heal_log, len, HealFixerEvents) <= (IF n > 0 THEN n - 1 ELSE 0)
        /\ heal_result = "True" <=> \E i \in 1..len : heal_log[i] = "tests_passed"
        /\ \A i \in 1..len : heal_log[i] = "tests_passed" => (i = len /\ hpc = "done")
        /\ heal_result = "False" =>
              /\ hpc = "done"
              /\ EventsUpTo(heal_log, len, {"tests_failed"}) = n
              /\ len > 0 => heal_log[len] = "tests_failed"
        /\ \A i \in 1..len :
              heal_log[i] \in HealFixerEvents =>
                  /\ heal_log[i - 1] = "tests_failed"
                  /\ EventsUpTo(heal_log, i, HealTestEvents) < n
        /\ \A i \in 1..len :
              heal_log[i] = "fixer_ClineError" =>
                  IF i = len THEN hpc = "test" /\ heal_result = "none"
                  ELSE heal_log[i + 1] \in HealTestEvents
        /\ (n = 0 /\ hpc # "start") => (hpc = "done" /\ heal_result = "False" /\ len = 0)

C35_Witness ==
    /\ hpc = "done"
    /\ max_attempts = 3
    /\ heal_result = "False"
    /\ heal_log = <<"tests_failed", "fixer_ClineError", "tests_failed", "fixer", "tests_failed">>

ReviewerEvents == {"reviewer_error", "reviewer_raised", "reviewer_lgtm", "reviewer_needs_changes"}

\* the bounds of C31 on what has run so far
C31_Bounded ==
    LET len == Len(review_log)
    IN  /\ EventsUpTo(review_log, len, ReviewerEvents) <= MAX_REVIEW_ITERATIONS
        /\ EventsUpTo(review_log, len, {"fixer"}) <= MAX_REVIEW_ITERATIONS - 1
        /\ \A i \in 1..len :
              review_log[i] = "fixer" =>
                  /\ i > 1 /\ review_log[i - 1] = "reviewer_needs_changes"
                  /\ EventsUpTo(review_log, i, ReviewerEvents) < MAX_REVIEW_ITERATIONS

C32_Original ==
    \A i \in 1..Len(review_log) :
        review_log[i] = "reviewer_error" =>
            /\ \A j \in (i + 1)..Len(review_log) : review_log[j] # "fixer"
            /\ \A k \in 1..Len(pr_labels) : pr_labels[k] # LabelNeedsAttention
            /\ (vpc = "exit" /\ review_exit = 0) =>
                  /\ pr_labels = <<LabelPassed>>
                  /\ Len(pr_comments) = 1 /\ pr_comments[1].status = StatusPassed

C34_OneConclusion ==
    /\ Len(pr_labels) <= 1 /\ Len(pr_comments) <= 1
    /\ (vpc = "exit" /\ review_exit = 0) =>
          /\ Len(pr_labels) = 1 /\ Len(pr_comments) = 1
          /\ Len(review_log) > 0
          /\ LET last == review_log[Len(review_log)]
             IN  IF last \in {"no_diff", "reviewer_error", "reviewer_lgtm"}
                 THEN pr_labels[1] = LabelPassed /\ pr_comments[1].status = StatusPassed
                 ELSE /\ pr_labels[1] = LabelNeedsAttention
                      /\ pr_comments[1].status = StatusNeedsAttention
                      /\ \/ last = "push_failed"
                         \/ /\ last = "reviewer_needs_changes"
                            /\ EventsUpTo(review_log, Len(review_log), ReviewerEvents)
                                  = MAX_REVIEW_ITERATIONS

C34_Witness ==
    /\ vpc = "exit"
    /\ review_exit = 0
    /\ review_log = <<"reviewer_needs_changes", "fixer", "pushed", "reviewer_error">>
    /\ pr_labels = <<LabelPassed>>
    /\ Len(pr_comments) = 1

AgentRunEvents == {"agent", "agent_ClineError", "agent_raised"}
AgentTestEvents == {"tests_passed", "tests_failed"}

\* the entries of main's record whose event is among these
EntriesOf(events) == {i \in 1..Len(agent_log) : agent_log[i].ev \in events}

\* the last agent invocation before entry i of the record, 0 when there is none
LastAgentRunBefore(i) ==
    IF \E k \in EntriesOf(AgentRunEvents) : k < i
    THEN CHOOSE k \in EntriesOf(AgentRunEvents) :
            k < i /\ \A j \in EntriesOf(AgentRunEvents) : j < i => j <= k
    ELSE 0

C37_Original ==
    \A i \in EntriesOf({"push", "create_pr", "output"}) : agent_log[i].name = created

\* without a collision the three names are the created branch
C37_WithoutCollision ==
    created = agent_branch => C37_Original

RECURSIVE ReplacedAtOnce(_, _)
ReplacedAtOnce(s, kw) ==
    IF s = <<>> THEN <<>>
    ELSE IF \E i \in 1..Len(kw) : StartsWith(Placeholder(kw[i].key), s)
    THEN LET i == CHOOSE j \in 1..Len(kw) : StartsWith(Placeholder(kw[j].key), s)
         IN  StrOf(kw[i].value)
                \o ReplacedAtOnce(SubSeq(s, Len(Placeholder(kw[i].key)) + 1, Len(s)), kw)
    ELSE <<Head(s)>> \o ReplacedAtOnce(Tail(s), kw)

\* the keyword arguments in the opposite order
Reversed(kw) == [i \in 1..Len(kw) |-> kw[Len(kw) + 1 - i]]

\* C40 as stated: load_prompt_template's result equals the template with every {{KEY}}
\* occurrence of each supplied key replaced by str(value) and all other template text
\* unchanged; text supplied as a value is inserted verbatim and never itself scanned for
\* placeholders, so the result does not depend on the order of the keyword arguments.
C40_Original ==
    rendered.kind = "returned" =>
        /\ rendered.text = ReplacedAtOnce(template, kwargs)
        /\ rendered.text = SubstituteAll(template, Reversed(kwargs))

\* with values that hold no brace the result is the one-pass replacement, in either order
C40_PlainValues ==
    (rendered.kind = "returned"
        /\ \A i \in 1..Len(kwargs) : ~Contains(<<"{">>, StrOf(kwargs[i].value))) =>
        /\ rendered.text = ReplacedAtOnce(template, kwargs)
        /\ rendered.text = SubstituteAll(template, Reversed(kwargs))

====
